---- MODULE Spec2Model ----
(***************************************************************************)
(* DuoFinance: the ledger aggregation and settlement logic of the page     *)
(* component (period resolution, transaction filter, income/expense        *)
(* totals, all-time settlement) together with the handlers that change the *)
(* state it is computed from.                                              *)
(*                                                                         *)
(* Representation.                                                         *)
(*  - A JavaScript number is an IEEE 754 double: [neg, m, e] stands for    *)
(*    (-1)^neg * m * 2^(15 e), m a natural number of at most 53 bits from   *)
(*    its highest to its lowest bit set, written as the sequence of its    *)
(*    digits to the base 2^15, the lowest first; zero is [FALSE, <<>>, 0]; *)
(*    NaN is a record of its own.  Sums and differences are rounded to     *)
(*    nearest, ties to even, as the hardware does; the exponent range      *)
(*    (overflow, subnormals) and the sign of zero are not modelled.        *)
(*  - A string of amount text is a sequence of one-character strings.      *)
(*  - A Date is [day, ms]: the local calendar day counted from 1970-01-01  *)
(*    and the milliseconds since local midnight.  Local time is a fixed    *)
(*    offset tz (minutes east of UTC); daylight saving is not modelled.    *)
(*  - A date string "YYYY-MM-DD" is the record [y, m, d] of its fields.    *)
(***************************************************************************)
EXTENDS Integers, Sequences, FiniteSets, TLC

VARIABLES
    now,              \* the wall clock: what `new Date()` returns
    tz,               \* local offset from UTC in minutes
    db,               \* server: the Transaction collection, in creation order
    nextId,           \* server: next _id to hand out
    transactions,     \* page state
    filter,           \* page state
    selectedDate,     \* page state
    view,             \* page state
    loading,          \* page state
    showSettleModal,  \* page state
    budgetDb,         \* server: the Budget collection, in creation order
    budgets,          \* page state: the limits by category, in key order
    upserts,          \* server: the POST /api/budgets each client has in progress
    requests,         \* page: the fetches it awaits, in the order it issued them
    confirmModal,     \* page state: the confirmation modal and what Confirm does
    isLoaded,         \* local-storage page: the load step has run
    storage           \* local-storage page: localStorage[STORAGE_KEY]

\* the confirmation modal and the state of the local-storage page
localVars == <<confirmModal, isLoaded, storage>>

vars == <<now, tz, db, nextId, transactions, filter, selectedDate, view,
          loading, showSettleModal, budgetDb, budgets, upserts, requests, localVars>>

-----------------------------------------------------------------------------
(* Bounds *)

MaxTx == 2          \* transactions the server holds at most
MaxNav == 2         \* how many periods away from now the page navigates

-----------------------------------------------------------------------------
(* Natural numbers of any size: the digits to the base 2^15, the lowest
   first, the last one not 0; <<>> is 0 *)

Base == 2 ^ 15
Pow2 == [k \in 0..15 |-> 2 ^ k]

MaxOf(x, y) == IF x >= y THEN x ELSE y
MinOf(x, y) == IF x <= y THEN x ELSE y

Zeros(k) == [i \in 1..k |-> 0]
Digit(a, i) == IF i <= Len(a) THEN a[i] ELSE 0

\* without leading zeros
LbNorm(a) ==
    IF \A i \in 1..Len(a) : a[i] = 0 THEN <<>>
    ELSE SubSeq(a, 1, CHOOSE i \in 1..Len(a) :
                          a[i] # 0 /\ \A j \in (i + 1)..Len(a) : a[j] = 0)

RECURSIVE LbOfNat(_)
LbOfNat(n) == IF n = 0 THEN <<>> ELSE <<n % Base>> \o LbOfNat(n \div Base)

RECURSIVE LbToNat(_)
LbToNat(a) == IF a = <<>> THEN 0 ELSE a[1] + Base * LbToNat(Tail(a))

\* a + b from digit i on, with the carry c into it
RECURSIVE LbAddFrom(_, _, _, _)
LbAddFrom(a, b, i, c) ==
    IF i > Len(a) /\ i > Len(b)
    THEN (IF c = 1 THEN <<1>> ELSE <<>>)
    ELSE LET t == Digit(a, i) + Digit(b, i) + c
         IN  <<t % Base>> \o LbAddFrom(a, b, i + 1, t \div Base)
LbAdd(a, b) == LbAddFrom(a, b, 1, 0)

\* a - b (a >= b) from digit i on, with the borrow br from it
RECURSIVE LbSubFrom(_, _, _, _)
LbSubFrom(a, b, i, br) ==
    IF i > Len(a) THEN <<>>
    ELSE LET t == Digit(a, i) - Digit(b, i) - br
         IN  <<t % Base>> \o LbSubFrom(a, b, i + 1, IF t < 0 THEN 1 ELSE 0)
LbSub(a, b) == LbNorm(LbSubFrom(a, b, 1, 0))

\* a < b
LbLess(a, b) ==
    \/ Len(a) < Len(b)
    \/ /\ Len(a) = Len(b)
       /\ \E i \in 1..Len(a) :
              /\ a[i] < b[i]
              /\ \A j \in (i + 1)..Len(a) : a[j] = b[j]

\* k * a for a small k
RECURSIVE LbTimesFrom(_, _, _, _)
LbTimesFrom(a, k, i, c) ==
    IF i > Len(a) THEN LbOfNat(c)
    ELSE LET t == k * a[i] + c
         IN  <<t % Base>> \o LbTimesFrom(a, k, i + 1, t \div Base)
LbTimes(a, k) == LbTimesFrom(a, k, 1, 0)

\* a * b, from digit i of b on
RECURSIVE LbMulFrom(_, _, _)
LbMulFrom(a, b, i) ==
    IF i > Len(b) THEN <<>>
    ELSE LbAdd(LbTimes(a, b[i]), <<0>> \o LbMulFrom(a, b, i + 1))
LbMul(a, b) == LbNorm(LbMulFrom(a, b, 1))

\* the only element of a set of one element
TheOne(S) == CHOOSE x \in S : TRUE

\* the largest digit q with q * b <= r, for r < Base * b: d with the bits
\* from bit k down decided
RECURSIVE QuotDigitFrom(_, _, _, _)
QuotDigitFrom(r, b, d, k) ==
    IF k < 0 THEN d
    ELSE TheOne({QuotDigitFrom(r, b, next, k - 1) :
                     next \in {IF LbLess(r, LbTimes(b, d + Pow2[k]))
                               THEN d ELSE d + Pow2[k]}})

\* n \div b by long division, from digit i of n down, with r what is left
\* of the digits above i and q the digits of the quotient so far; the lowest
\* bit of the result is set when the division leaves a remainder
RECURSIVE LbDivFrom(_, _, _, _, _)
RECURSIVE LbDivDigit(_, _, _, _, _)
WithSticky(q, r) ==
    IF r = <<>> \/ q = <<>> THEN q ELSE [q EXCEPT ![1] = 2 * (@ \div 2) + 1]
LbDivFrom(n, b, i, r, q) ==
    IF i = 0 THEN LbNorm(WithSticky(q, r))
    ELSE TheOne({LbDivDigit(n, b, i, cur, q) :
                     cur \in {LbNorm(<<n[i]>> \o r)}})
LbDivDigit(n, b, i, cur, q) ==
    TheOne({LbDivFrom(n, b, i - 1, LbSub(cur, LbTimes(b, d)), <<d>> \o q) :
                d \in {QuotDigitFrom(cur, b, 0, 14)}})
LbDivSticky(n, b) == LbDivFrom(n, b, Len(n), <<>>, <<>>)

\* the number of bits of a # 0, and its bit j (bit 0 the lowest)
BitLen(a) ==
    15 * (Len(a) - 1)
      + (CHOOSE k \in 1..15 : Pow2[k - 1] <= a[Len(a)] /\ a[Len(a)] < Pow2[k])
Bit(a, j) == (Digit(a, (j \div 15) + 1) \div Pow2[j % 15]) % 2
\* whether a has a bit set below bit j
AnyBitBelow(a, j) ==
    \/ \E i \in 1..MinOf(j \div 15, Len(a)) : a[i] # 0
    \/ Digit(a, (j \div 15) + 1) % Pow2[j % 15] # 0
\* a with the bits below bit j cleared
ClearBelow(a, j) ==
    [i \in 1..Len(a) |->
        IF i <= j \div 15 THEN 0
        ELSE IF i = (j \div 15) + 1 THEN a[i] - (a[i] % Pow2[j % 15])
        ELSE a[i]]
\* 2^j
LbPow2(j) == Zeros(j \div 15) \o <<Pow2[j % 15]>>

-----------------------------------------------------------------------------
(* JavaScript numbers *)

MsPerDay == 24 * 60 * 60 * 1000

(* IEEE 754 binary64, finite values: [neg, m, e] is (-1)^neg * m * Base^e,
   m of at most 53 bits from its highest to its lowest bit set and with a
   lowest digit that is not 0; or NaN *)

NaN == [nan |-> TRUE]
IsNaN(x) == x = NaN
\* Infinity and -Infinity, which only a division by zero produces
Infinity(neg) == [inf |-> TRUE, neg |-> neg]
IsInf(x) == x \in {Infinity(FALSE), Infinity(TRUE)}
Zero == [neg |-> FALSE, m |-> <<>>, e |-> 0]

\* the value (-1)^neg * m * Base^e, which is representable
Canon(neg, m, e) ==
    IF m = <<>> THEN Zero
    ELSE LET z == (CHOOSE i \in 1..Len(m) :
                       m[i] # 0 /\ \A j \in 1..(i - 1) : m[j] = 0) - 1
         IN  [neg |-> neg, m |-> SubSeq(m, z + 1, Len(m)), e |-> e + z]

\* the double nearest to (-1)^neg * m * Base^e, ties to even
RoundUp(m, k) == Bit(m, k - 1) = 1 /\ (AnyBitBelow(m, k - 1) \/ Bit(m, k) = 1)
\* m rounded to a multiple of 2^k
RoundAt(m, k) ==
    IF k <= 0 THEN m
    ELSE IF RoundUp(m, k) THEN LbAdd(ClearBelow(m, k), LbPow2(k))
    ELSE ClearBelow(m, k)
Round(neg, m, e) ==
    IF m = <<>> THEN Zero ELSE Canon(neg, RoundAt(m, BitLen(m) - 53), e)

Negate(x) == IF IsNaN(x) \/ x = Zero THEN x ELSE [x EXCEPT !.neg = ~@]

\* a + b with an operand that is infinite
PlusInf(a, b) ==
    IF IsInf(a) /\ IsInf(b) /\ a # b THEN NaN ELSE IF IsInf(a) THEN a ELSE b

\* the sum of (-1)^na * ma * Base^lo and (-1)^nb * mb * Base^lo
PlusAligned(na, ma, nb, mb, lo) ==
    Round(IF na = nb \/ ~LbLess(ma, mb) THEN na ELSE nb,
          IF na = nb THEN LbAdd(ma, mb)
          ELSE IF LbLess(ma, mb) THEN LbSub(mb, ma)
          ELSE LbSub(ma, mb),
          lo)

\* a + b
Plus(a, b) ==
    IF IsNaN(a) \/ IsNaN(b) THEN NaN
    ELSE IF IsInf(a) \/ IsInf(b) THEN PlusInf(a, b)
    ELSE IF a = Zero THEN b
    ELSE IF b = Zero THEN a
    ELSE PlusAligned(a.neg, Zeros(a.e - MinOf(a.e, b.e)) \o a.m,
                     b.neg, Zeros(b.e - MinOf(a.e, b.e)) \o b.m,
                     MinOf(a.e, b.e))
\* a - b
Minus(a, b) == Plus(a, Negate(b))
\* a / 2
LbHalf(s) ==
    LbNorm([i \in 1..Len(s) |-> (s[i] \div 2) + (Digit(s, i + 1) % 2) * Pow2[14]])
Half(a) ==
    IF IsNaN(a) \/ IsInf(a) \/ a = Zero THEN a
    ELSE Canon(a.neg, LbHalf(<<0>> \o a.m), a.e - 1)
\* Math.abs(a)
MathAbs(a) == IF IsNaN(a) THEN NaN ELSE [a EXCEPT !.neg = FALSE]
\* a > b, a < b, a <= b: false when either side is NaN
IsPositive(d) == ~IsNaN(d) /\ d # Zero /\ ~d.neg
Gt(a, b) == ~IsNaN(a) /\ ~IsNaN(b) /\ IsPositive(Minus(a, b))
Lt(a, b) == Gt(b, a)
Le(a, b) == ~IsNaN(a) /\ ~IsNaN(b) /\ ~Gt(a, b)

\* the literal n, a whole number
OfInt(n) == Round(n < 0, LbOfNat(IF n < 0 THEN 0 - n ELSE n), 0)

\* a * b
Times(a, b) ==
    IF IsNaN(a) \/ IsNaN(b) THEN NaN
    ELSE IF IsInf(a) \/ IsInf(b)
         THEN (IF a = Zero \/ b = Zero THEN NaN ELSE Infinity(a.neg # b.neg))
    ELSE IF a = Zero \/ b = Zero THEN Zero
    ELSE Round(a.neg # b.neg, LbMul(a.m, b.m), a.e + b.e)

\* a / b for finite a and b that are not 0: the quotient of the digits of a,
\* with k more digits below them, by those of b has more than 60 bits
DivideShifted(a, b, k) ==
    Round(a.neg # b.neg, LbDivSticky(Zeros(k) \o a.m, b.m), a.e - b.e - k)
\* a / b
Divide(a, b) ==
    IF IsNaN(a) \/ IsNaN(b) THEN NaN
    ELSE IF IsInf(a) THEN (IF IsInf(b) THEN NaN ELSE Infinity(a.neg # b.neg))
    ELSE IF IsInf(b) THEN Zero
    ELSE IF b = Zero THEN (IF a = Zero THEN NaN ELSE Infinity(a.neg))
    ELSE IF a = Zero THEN Zero
    ELSE DivideShifted(a, b, Len(b.m) - Len(a.m) + 5)

-----------------------------------------------------------------------------
(* Amount text: Number(s) and x.toFixed(2) *)

Digits == <<"0", "1", "2", "3", "4", "5", "6", "7", "8", "9">>
IsDigit(c) == \E i \in 1..10 : Digits[i] = c
DigitVal(c) == (CHOOSE i \in 1..10 : Digits[i] = c) - 1
AllDigits(s) == \A i \in 1..Len(s) : IsDigit(s[i])

RECURSIVE DigitsVal(_)
DigitsVal(s) ==
    IF s = <<>> THEN 0
    ELSE 10 * DigitsVal(SubSeq(s, 1, Len(s) - 1)) + DigitVal(s[Len(s)])

RECURSIVE Pow10(_)
Pow10(k) == IF k = 0 THEN 1 ELSE 10 * Pow10(k - 1)

\* position of the first "." in s, or 0
DotPos(s) ==
    IF \E i \in 1..Len(s) : s[i] = "."
    THEN CHOOSE i \in 1..Len(s) : s[i] = "." /\ \A j \in 1..(i - 1) : s[j] # "."
    ELSE 0

\* what is left of r / den (r < den) after j digits behind the point
RECURSIVE Remainder(_, _, _)
Remainder(r, den, j) ==
    IF j = 0 THEN r ELSE (Remainder(r, den, j - 1) * Base) % den

\* the double nearest to num / den: the whole part and eight digits of the
\* fraction (more bits than a double holds), the lowest bit set when
\* anything is left after them
FractionDigit(r, den, i) ==
    IF i = 1 /\ Remainder(r, den, 8) # 0
    THEN 2 * (((Remainder(r, den, 7) * Base) \div den) \div 2) + 1
    ELSE (Remainder(r, den, 8 - i) * Base) \div den
Quotient(num, den) ==
    Round(FALSE,
          LbNorm([i \in 1..(IF num % den = 0 THEN 0 ELSE 8) |->
                      FractionDigit(num % den, den, i)]
                 \o LbOfNat(num \div den)),
          IF num % den = 0 THEN 0 ELSE -8)

\* value of an unsigned decimal text (digits, optional ".", up to four
\* fraction digits); NaN when it is not a number
UnsignedVal(s) ==
    LET p == DotPos(s)
        ip == IF p = 0 THEN s ELSE SubSeq(s, 1, p - 1)
        fp == IF p = 0 THEN <<>> ELSE SubSeq(s, p + 1, Len(s))
    IN  IF ~AllDigits(ip) \/ ~AllDigits(fp) \/ (ip = <<>> /\ fp = <<>>)
           \/ Len(fp) > 4
        THEN NaN
        ELSE Quotient(DigitsVal(ip \o fp), Pow10(Len(fp)))

\* Number(s) for the text of an amount
Signed(neg, v) == IF neg THEN Negate(v) ELSE v
Number(s) ==
    IF s = <<>> THEN Zero
    ELSE Signed(s[1] = "-",
                UnsignedVal(IF s[1] \in {"-", "+"} THEN Tail(s) ELSE s))

RECURSIVE NatText(_)
NatText(n) ==
    IF n < 10 THEN <<Digits[n + 1]>>
    ELSE Append(NatText(n \div 10), Digits[(n % 10) + 1])

\* the integer n for which n / 100 is nearest to x >= 0, the larger on a tie
\* t * Base^e to the nearest whole number, the larger on a tie
Nearest(t, e) ==
    IF e >= 0 THEN LbToNat(Zeros(e) \o t)
    ELSE LbToNat(SubSeq(t, 1 - e, Len(t)))
           + (IF Digit(t, 0 - e) >= Pow2[14] THEN 1 ELSE 0)
Hundredths(x) == IF x = Zero THEN 0 ELSE Nearest(LbTimes(x.m, 100), x.e)

\* x.toFixed(2) for x >= 0
\* n hundredths written with two fraction digits
FixedText(n) ==
    NatText(n \div 100) \o <<".">>
      \o <<Digits[((n % 100) \div 10) + 1], Digits[(n % 10) + 1]>>
ToFixed2(x) == FixedText(Hundredths(x))
\* the literal 0.01
Epsilon == Number(<<"0", ".", "0", "1">>)

-----------------------------------------------------------------------------
(* Calendar: the Date object *)

\* floor(a / b) and a mod b for b > 0
FloorDiv(a, b) == a \div b
Mod(a, b) == a % b

\* Day number of year y, month m (0-based, 0..11), day-of-month 1 plus
\* (dt - 1) days: MakeDay of ECMAScript, which lets dt run outside the month
DaysFromCivil(y, m, dt) ==
    LET mm == m + 1
        yy == IF mm <= 2 THEN y - 1 ELSE y
        era == FloorDiv(yy, 400)
        yoe == yy - era * 400
        mp == IF mm > 2 THEN mm - 3 ELSE mm + 9
        doy == (153 * mp + 2) \div 5
        doe == yoe * 365 + (yoe \div 4) - (yoe \div 100) + doy
    IN  era * 146097 + doe - 719468 + (dt - 1)

\* MakeDay with the month also out of range
MakeDay(y, m, dt) == DaysFromCivil(y + FloorDiv(m, 12), Mod(m, 12), dt)

\* [y, m (0-based), d] of a day number
CivilFromDays(z0) ==
    LET z == z0 + 719468
        era == FloorDiv(z, 146097)
        doe == z - era * 146097
        yoe == (doe - (doe \div 1460) + (doe \div 36524) - (doe \div 146096)) \div 365
        doy == doe - (365 * yoe + (yoe \div 4) - (yoe \div 100))
        mp == (5 * doy + 2) \div 153
        d == doy - ((153 * mp + 2) \div 5) + 1
        mm == IF mp < 10 THEN mp + 3 ELSE mp - 9
        y == yoe + era * 400 + (IF mm <= 2 THEN 1 ELSE 0)
    IN  [y |-> y, m |-> mm - 1, d |-> d]

getFullYear(D) == CivilFromDays(D.day).y
getMonth(D) == CivilFromDays(D.day).m
getDate(D) == CivilFromDays(D.day).d
\* 0 = Sunday .. 6 = Saturday; day 0 (1970-01-01) was a Thursday
getDay(D) == Mod(D.day + 4, 7)

setDate(D, dt) == [D EXCEPT !.day = MakeDay(getFullYear(D), getMonth(D), dt)]
setMonth(D, m) == [D EXCEPT !.day = MakeDay(getFullYear(D), m, getDate(D))]
setMonth2(D, m, dt) == [D EXCEPT !.day = MakeDay(getFullYear(D), m, dt)]
setFullYear(D, y) == [D EXCEPT !.day = MakeDay(y, getMonth(D), getDate(D))]
setHours(D, h, mi, s, ms) ==
    [D EXCEPT !.ms = ((h * 60 + mi) * 60 + s) * 1000 + ms]

\* D1 <= D2 on Date objects (comparison of their time values)
DateLe(D1, D2) == D1.day < D2.day \/ (D1.day = D2.day /\ D1.ms <= D2.ms)

\* new Date(y, m - 1, d) for the fields of a date string
DateOfFields(y, m, d) == [day |-> MakeDay(y, m - 1, d), ms |-> 0]

\* D.toISOString().split('T')[0]: the calendar date of D in UTC
ISODate(D, offset) ==
    LET utcMs == D.ms - offset * 60000
        c == CivilFromDays(D.day + FloorDiv(utcMs, MsPerDay))
    IN  [y |-> c.y, m |-> c.m + 1, d |-> c.d]

\* the date string as the server and the sort compare it
DateKey(ds) == (ds.y * 100 + ds.m) * 100 + ds.d

-----------------------------------------------------------------------------
(* Server: /api/transactions *)

Owners == {"me", "her"}
TransactionTypes == {"income", "expense", "settlement"}
SplitTypes == {"personal", "shared"}
Filters == {"weekly", "monthly", "yearly"}

\* the value of a field the document does not have
Undefined == "undefined"
\* the value null
Null == [null |-> TRUE]

\* TransactionSchema: what Transaction.create accepts
SchemaValid(body) ==
    /\ body.amount # <<>>
    /\ body.type \in TransactionTypes
    /\ body.owner \in Owners
    /\ body.split \in SplitTypes \cup {Undefined}

\* position at which rec goes into a list sorted by date descending so that
\* it comes after every record it does not precede
RECURSIVE InsertSorted(_, _)
InsertSorted(sorted, rec) ==
    IF sorted = <<>> THEN <<rec>>
    ELSE IF DateKey(rec.date) > DateKey(Head(sorted).date)
         THEN <<rec>> \o sorted
         ELSE <<Head(sorted)>> \o InsertSorted(Tail(sorted), rec)

\* stable sort by date descending
RECURSIVE SortByDateDesc(_)
SortByDateDesc(list) ==
    IF list = <<>> THEN <<>>
    ELSE InsertSorted(SortByDateDesc(SubSeq(list, 1, Len(list) - 1)),
                      list[Len(list)])

RECURSIVE Reverse(_)
Reverse(list) ==
    IF list = <<>> THEN <<>> ELSE Append(Reverse(Tail(list)), Head(list))

\* GET: Transaction.find({}).sort({ date: -1, createdAt: -1 })
GET(coll) == SortByDateDesc(Reverse(coll))

\* a delete of the oldest record, whatever the id
DELETE_Oldest(coll, id) == IF coll = <<>> THEN coll ELSE Tail(coll)

\* DELETE: Transaction.findByIdAndDelete(id)
DELETE(coll, id) == SelectSeq(coll, LAMBDA t : t.id # id)

\* POST: Transaction.create(body); a body the schema rejects changes nothing
POST(coll, id, body) ==
    IF SchemaValid(body)
    THEN Append(coll, [id |-> id, amount |-> body.amount,
                       category |-> body.category, date |-> body.date,
                       type |-> body.type, owner |-> body.owner,
                       split |-> body.split, from |-> body.from,
                       to |-> body.to])
    ELSE coll

-----------------------------------------------------------------------------
(* Server: /api/budgets *)

BudgetOwners == {"me", "her", "joint"}

\* acc[key] = val on an object kept as the sequence of its [key, val] pairs
\* in key order: an existing key keeps its place, a new one goes last
SetKey(acc, key, val) ==
    IF \E i \in 1..Len(acc) : acc[i].key = key
    THEN [i \in 1..Len(acc) |->
              IF acc[i].key = key THEN [key |-> key, val |-> val] ELSE acc[i]]
    ELSE Append(acc, [key |-> key, val |-> val])

\* GET: Budget.find({}) reduced to the object { category: amount }
RECURSIVE BudgetMap(_, _)
BudgetMap(coll, acc) ==
    IF coll = <<>> THEN acc
    ELSE BudgetMap(Tail(coll), SetKey(acc, Head(coll).category, Head(coll).amount))
BudgetGET(coll) == BudgetMap(coll, <<>>)

\* POST: Budget.findOneAndUpdate({ category }, { amount }, { upsert: true }):
\* the first document of the category gets the amount, or a document is
\* inserted with the default owner
BudgetPOST(coll, body) ==
    IF \E i \in 1..Len(coll) : coll[i].category = body.category
    THEN LET first == CHOOSE i \in 1..Len(coll) :
                          /\ coll[i].category = body.category
                          /\ \A j \in 1..(i - 1) : coll[j].category # body.category
         IN  [coll EXCEPT ![first].amount = body.amount]
    ELSE Append(coll, [category |-> body.category, amount |-> body.amount,
                       owner |-> "joint"])

\* the clients of the server: the page of either partner
Clients == {"me", "her"}

\* a request of POST /api/budgets: pc says whether the handler is to insert
\* or to answer, status is the response of the last request (0 before one)
NoRequest == [pc |-> "idle", category |-> "", amount |-> Zero, status |-> 0]

\* the unique index { category: 1, owner: 1 } finds doc's key in the collection
DuplicateKey(coll, doc) ==
    \E i \in 1..Len(coll) :
        coll[i].category = doc.category /\ coll[i].owner = doc.owner

\* insert into a collection that has no unique index
BudgetInsert_NoIndex(coll, doc) == Append(coll, doc)

\* insert of the upsert: a duplicate key leaves the collection as it is
BudgetInsert(coll, doc) ==
    IF DuplicateKey(coll, doc) THEN coll ELSE Append(coll, doc)

\* findOneAndUpdate, first half: a document of the category is found and gets
\* the amount in one step; with none found the upsert goes on to insert
upsertFind(c, body) ==
    /\ upserts[c].pc = "idle"
    /\ IF \E i \in 1..Len(budgetDb) : budgetDb[i].category = body.category
       THEN /\ budgetDb' = BudgetPOST(budgetDb, body)
            /\ upserts' = [upserts EXCEPT ![c] =
                    [pc |-> "respond", category |-> body.category,
                     amount |-> body.amount, status |-> 200]]
       ELSE /\ budgetDb' = budgetDb
            /\ upserts' = [upserts EXCEPT ![c] =
                    [pc |-> "insert", category |-> body.category,
                     amount |-> body.amount, status |-> 0]]
    /\ UNCHANGED <<now, tz, db, nextId, transactions, filter, selectedDate, view,
                   loading, showSettleModal, budgets, requests, localVars>>

\* findOneAndUpdate, second half: the insert of { category, amount } with the
\* default owner; on a duplicate key the server either fails the request
\* (the catch answers 400) or retries the upsert as an update
upsertInsert(c, maxDocs) ==
    /\ upserts[c].pc = "insert"
    /\ Len(budgetDb) < maxDocs
    /\ LET doc == [category |-> upserts[c].category, amount |-> upserts[c].amount,
                   owner |-> "joint"]
           inserted == BudgetInsert(budgetDb, doc)
       IN  \/ /\ budgetDb' = inserted
              /\ upserts' = [upserts EXCEPT ![c].pc = "respond",
                     ![c].status = IF inserted = budgetDb THEN 400 ELSE 200]
           \/ /\ inserted = budgetDb
              /\ budgetDb' = BudgetPOST(budgetDb, doc)
              /\ upserts' = [upserts EXCEPT ![c].pc = "respond", ![c].status = 200]
    /\ UNCHANGED <<now, tz, db, nextId, transactions, filter, selectedDate, view,
                   loading, showSettleModal, budgets, requests, localVars>>

\* the handler returns NextResponse.json with the status
upsertRespond(c) ==
    /\ upserts[c].pc = "respond"
    /\ upserts' = [upserts EXCEPT ![c].pc = "idle"]
    /\ UNCHANGED <<now, tz, db, nextId, transactions, filter, selectedDate, view,
                   loading, showSettleModal, budgetDb, budgets, requests, localVars>>

-----------------------------------------------------------------------------
(* Page: derived values *)

\* dateRange with the end of the month set in two steps,
\* end.setMonth(end.getMonth() + 1); end.setDate(0)
dateRange_TwoStepMonthEnd(flt, sel) ==
    IF flt = "weekly" THEN
        LET day == getDay(sel)
            diff == getDate(sel) - day + (IF day = 0 THEN -6 ELSE 1)
            start == setHours(setDate(sel, diff), 0, 0, 0, 0)
            end == setHours(setDate(start, getDate(start) + 6), 23, 59, 59, 999)
        IN  [start |-> start, end |-> end]
    ELSE IF flt = "monthly" THEN
        [start |-> setHours(setDate(sel, 1), 0, 0, 0, 0),
         end |-> setHours(setDate(setMonth(sel, getMonth(sel) + 1), 0),
                          23, 59, 59, 999)]
    ELSE
        [start |-> setHours(setMonth2(sel, 0, 1), 0, 0, 0, 0),
         end |-> setHours(setMonth2(sel, 11, 31), 23, 59, 59, 999)]

\* dateRange with a Sunday treated like the other days (no day === 0 case)
dateRange_SundayNextWeek(flt, sel) ==
    IF flt = "weekly" THEN
        LET day == getDay(sel)
            diff == getDate(sel) - day + 1
            start == setHours(setDate(sel, diff), 0, 0, 0, 0)
            end == setHours(setDate(start, getDate(start) + 6), 23, 59, 59, 999)
        IN  [start |-> start, end |-> end]
    ELSE IF flt = "monthly" THEN
        [start |-> setHours(setDate(sel, 1), 0, 0, 0, 0),
         end |-> setHours(setMonth2(sel, getMonth(sel) + 1, 0), 23, 59, 59, 999)]
    ELSE
        [start |-> setHours(setMonth2(sel, 0, 1), 0, 0, 0, 0),
         end |-> setHours(setMonth2(sel, 11, 31), 23, 59, 59, 999)]

\* dateRange
dateRange(flt, sel) ==
    IF flt = "weekly" THEN
        LET day == getDay(sel)
            diff == getDate(sel) - day + (IF day = 0 THEN -6 ELSE 1)
            start == setHours(setDate(sel, diff), 0, 0, 0, 0)
            end == setHours(setDate(start, getDate(start) + 6), 23, 59, 59, 999)
        IN  [start |-> start, end |-> end]
    ELSE IF flt = "monthly" THEN
        [start |-> setHours(setDate(sel, 1), 0, 0, 0, 0),
         end |-> setHours(setMonth2(sel, getMonth(sel) + 1, 0), 23, 59, 59, 999)]
    ELSE
        [start |-> setHours(setMonth2(sel, 0, 1), 0, 0, 0, 0),
         end |-> setHours(setMonth2(sel, 11, 31), 23, 59, 59, 999)]

\* InRange with the start of the period excluded (> for >=)
InRange_StrictStart(t, range) ==
    LET tDate == setHours(DateOfFields(t.date.y, t.date.m, t.date.d), 0, 0, 0, 0)
    IN  ~DateLe(tDate, range.start) /\ DateLe(tDate, range.end)

\* the predicate of filteredTransactions' filter
InRange(t, range) ==
    LET tDate == setHours(DateOfFields(t.date.y, t.date.m, t.date.d), 0, 0, 0, 0)
    IN  DateLe(range.start, tDate) /\ DateLe(tDate, range.end)

RECURSIVE FilterRange(_, _)
FilterRange(list, range) ==
    IF list = <<>> THEN <<>>
    ELSE IF InRange(Head(list), range)
         THEN <<Head(list)>> \o FilterRange(Tail(list), range)
         ELSE FilterRange(Tail(list), range)

\* filteredTransactions
filteredTransactions(txs, range) == SortByDateDesc(FilterRange(txs, range))

\* acc[k] += val
AddTo(acc, k, val) == [acc EXCEPT ![k] = Plus(@, val)]

\* ViewStats without the early return for settlements
RECURSIVE ViewStats_CountsSettlement(_, _)
ViewStats_CountsSettlement(list, acc) ==
    IF list = <<>> THEN acc
    ELSE ViewStats_CountsSettlement(Tail(list),
             AddTo(acc,
                   IF Head(list).type = "income" THEN "income" ELSE "expense",
                   Number(Head(list).amount)))

\* ViewStats with the two totals exchanged
RECURSIVE ViewStats_Exchanged(_, _)
ViewStats_Exchanged(list, acc) ==
    IF list = <<>> THEN acc
    ELSE ViewStats_Exchanged(Tail(list),
             IF Head(list).type = "settlement" THEN acc
             ELSE AddTo(acc,
                        IF Head(list).type = "income" THEN "expense" ELSE "income",
                        Number(Head(list).amount)))

\* the first forEach of financials: [income, expense] over the filtered list
RECURSIVE ViewStats(_, _)
ViewStats(list, acc) ==
    IF list = <<>> THEN acc
    ELSE ViewStats(Tail(list),
             IF Head(list).type = "settlement" THEN acc
             ELSE AddTo(acc,
                        IF Head(list).type = "income" THEN "income" ELSE "expense",
                        Number(Head(list).amount)))

\* Accumulator without the test of the split
Accumulator_AnySplit(t) ==
    IF t.type = "settlement" THEN
        (IF t.from = "me" /\ t.to = "her" THEN "meSettledToHer"
         ELSE IF t.from = "her" /\ t.to = "me" THEN "herSettledToMe"
         ELSE "none")
    ELSE IF t.type = "expense" THEN
        (IF t.owner = "me" THEN "meSharedPaid"
         ELSE IF t.owner = "her" THEN "herSharedPaid"
         ELSE "none")
    ELSE "none"

\* the accumulator of the second forEach that t is added to, or "none"
Accumulator(t) ==
    IF t.type = "settlement" THEN
        (IF t.from = "me" /\ t.to = "her" THEN "meSettledToHer"
         ELSE IF t.from = "her" /\ t.to = "me" THEN "herSettledToMe"
         ELSE "none")
    ELSE IF t.type = "expense" /\ t.split = "shared" THEN
        (IF t.owner = "me" THEN "meSharedPaid"
         ELSE IF t.owner = "her" THEN "herSharedPaid"
         ELSE "none")
    ELSE "none"

\* AllTimeStats as a loop that a settlement ends (break for continue)
RECURSIVE AllTimeStats_StopsAtSettlement(_, _)
AllTimeStats_StopsAtSettlement(list, acc) ==
    IF list = <<>> THEN acc
    ELSE AllTimeStats_StopsAtSettlement(
             IF Head(list).type = "settlement" THEN <<>> ELSE Tail(list),
             IF Accumulator(Head(list)) = "none" THEN acc
             ELSE AddTo(acc, Accumulator(Head(list)), Number(Head(list).amount)))

\* the second forEach of financials, over the full list
RECURSIVE AllTimeStats(_, _)
AllTimeStats(list, acc) ==
    IF list = <<>> THEN acc
    ELSE AllTimeStats(Tail(list),
             IF Accumulator(Head(list)) = "none" THEN acc
             ELSE AddTo(acc, Accumulator(Head(list)), Number(Head(list).amount)))

\* whoOwes with the two owners exchanged
whoOwesOf_Exchanged(netDebt) ==
    IF Gt(netDebt, Epsilon) THEN "her"
    ELSE IF Lt(netDebt, Negate(Epsilon)) THEN "me"
    ELSE "none"

\* whoOwes of the settlement of financials
whoOwesOf(netDebt) ==
    IF Gt(netDebt, Epsilon) THEN "me"
    ELSE IF Lt(netDebt, Negate(Epsilon)) THEN "her"
    ELSE "none"

\* netDebt with the settlements entering with the opposite sign
netDebtOf_SettlementSign(a) ==
    Minus(Plus(Minus(Half(a.herSharedPaid), Half(a.meSharedPaid)),
               a.meSettledToHer),
          a.herSettledToMe)

\* netDebt with the two halves of the base debt exchanged
netDebtOf_DebtExchanged(a) ==
    Plus(Minus(Minus(Half(a.meSharedPaid), Half(a.herSharedPaid)),
               a.meSettledToHer),
         a.herSettledToMe)

\* baseDebt and netDebt of financials, from the four accumulators
netDebtOf(a) ==
    Plus(Minus(Minus(Half(a.herSharedPaid), Half(a.meSharedPaid)),
               a.meSettledToHer),
         a.herSettledToMe)

\* the object financials returns, from the totals and the net debt
Summary(v, netDebt) ==
    [income |-> v.income,
     expense |-> v.expense,
     balance |-> Minus(v.income, v.expense),
     settlement |-> [amount |-> MathAbs(netDebt),
                     whoOwes |-> whoOwesOf(netDebt),
                     raw |-> netDebt]]

NoTotals == [income |-> Zero, expense |-> Zero]
NoDebts == [meSharedPaid |-> Zero, herSharedPaid |-> Zero,
            meSettledToHer |-> Zero, herSettledToMe |-> Zero]

\* financials with the settlement computed from the filtered list
financials_DebtOfPeriod(filtered, txs) ==
    Summary(ViewStats(filtered, NoTotals),
            netDebtOf(AllTimeStats(filtered, NoDebts)))

\* financials
financials(filtered, txs) ==
    Summary(ViewStats(filtered, NoTotals), netDebtOf(AllTimeStats(txs, NoDebts)))

\* obj[key] || 0 on an object of numbers: 0 for a missing key, for NaN and
\* for 0
OrZero(obj, key) ==
    IF \E i \in 1..Len(obj) :
           obj[i].key = key /\ ~IsNaN(obj[i].val) /\ obj[i].val # Zero
    THEN obj[CHOOSE i \in 1..Len(obj) : obj[i].key = key].val
    ELSE Zero

\* usage without the filter on the type: every record counts against its
\* category
RECURSIVE usageOf_AnyType(_, _)
usageOf_AnyType(list, usage) ==
    IF list = <<>> THEN usage
    ELSE usageOf_AnyType(Tail(list),
             SetKey(usage, Head(list).category,
                    Plus(OrZero(usage, Head(list).category),
                         Number(Head(list).amount))))

\* the forEach of budgetStats: usage by category over the expenses of the
\* filtered list
RECURSIVE usageOf(_, _)
usageOf(list, usage) ==
    IF list = <<>> THEN usage
    ELSE usageOf(Tail(list),
             IF Head(list).type = "expense"
             THEN SetKey(usage, Head(list).category,
                         Plus(OrZero(usage, Head(list).category),
                              Number(Head(list).amount)))
             ELSE usage)

\* scale with a quarter of the monthly limit for a week
scaleOf_Quarter(flt) ==
    IF flt = "weekly" THEN Number(<<"0", ".", "2", "5">>)
    ELSE IF flt = "yearly" THEN OfInt(12)
    ELSE OfInt(1)

\* scale of budgetStats
scaleOf(flt) ==
    IF flt = "weekly" THEN Number(<<"0", ".", "2", "3">>)
    ELSE IF flt = "yearly" THEN OfInt(12)
    ELSE OfInt(1)

\* pct without the test of the limit
pctOf_Unguarded(spent, effectiveLimit) ==
    Times(Divide(spent, effectiveLimit), OfInt(100))

\* pct of budgetStats
pctOf(spent, effectiveLimit) ==
    IF Gt(effectiveLimit, Zero)
    THEN Times(Divide(spent, effectiveLimit), OfInt(100))
    ELSE Zero

\* the BudgetStat of a category from its limits and what was spent
BudgetStat(cat, monthlyLimit, effectiveLimit, spent) ==
    [category |-> cat, monthlyLimit |-> monthlyLimit,
     effectiveLimit |-> effectiveLimit, spent |-> spent,
     pct |-> pctOf(spent, effectiveLimit)]

\* the body of the map of budgetStats for one category
StatOfLimit(cat, monthlyLimit, usage, scale) ==
    BudgetStat(cat, monthlyLimit, Times(monthlyLimit, scale), OrZero(usage, cat))

\* the map of budgetStats over the categories spent on as well, a category
\* without a limit getting a row with the limit 0
StatsOf_AlsoSpent(bud, usage, scale) ==
    [i \in 1..(Len(bud) + Len(usage)) |->
         IF i <= Len(bud)
         THEN StatOfLimit(bud[i].key, OrZero(bud, bud[i].key), usage, scale)
         ELSE StatOfLimit(usage[i - Len(bud)].key,
                          OrZero(bud, usage[i - Len(bud)].key), usage, scale)]

\* Object.keys(budgets).map(...)
StatsOf(bud, usage, scale) ==
    [i \in 1..Len(bud) |->
         StatOfLimit(bud[i].key, OrZero(bud, bud[i].key), usage, scale)]

\* the place of a sort that puts x before the stats of the same pct as well
PlaceByPct_BeforeEqual(sorted, x) ==
    IF \E j \in 1..Len(sorted) : ~Gt(sorted[j].pct, x.pct)
    THEN CHOOSE j \in 1..Len(sorted) :
             /\ ~Gt(sorted[j].pct, x.pct)
             /\ \A k \in 1..(j - 1) : Gt(sorted[k].pct, x.pct)
    ELSE Len(sorted) + 1

\* where sort((a, b) => b.pct - a.pct) puts x among the stats sorted so far:
\* before the first one with a smaller pct
PlaceByPct(sorted, x) ==
    IF \E j \in 1..Len(sorted) : Gt(x.pct, sorted[j].pct)
    THEN CHOOSE j \in 1..Len(sorted) :
             /\ Gt(x.pct, sorted[j].pct)
             /\ \A k \in 1..(j - 1) : ~Gt(x.pct, sorted[k].pct)
    ELSE Len(sorted) + 1
InsertAt(seq, p, x) ==
    SubSeq(seq, 1, p - 1) \o <<x>> \o SubSeq(seq, p, Len(seq))
RECURSIVE SortByPct(_, _)
SortByPct(list, sorted) ==
    IF list = <<>> THEN sorted
    ELSE SortByPct(Tail(list),
                   InsertAt(sorted, PlaceByPct(sorted, Head(list)), Head(list)))

\* budgetStats
budgetStats(filtered, bud, flt) ==
    SortByPct(StatsOf(bud, usageOf(filtered, <<>>), scaleOf(flt)), <<>>)

\* the values the page renders in the current state
CurRange == dateRange(filter, selectedDate)
CurFiltered == filteredTransactions(transactions, CurRange)
CurFinancials == financials(CurFiltered, transactions)

CurBudgetStats == budgetStats(CurFiltered, budgets, filter)

-----------------------------------------------------------------------------
(* Page: handlers *)

\* fetchData (the 5 s poll, and the refresh at the end of the handlers)
fetchData ==
    /\ transactions' = GET(db)
    /\ budgets' = BudgetGET(budgetDb)
    /\ loading' = FALSE
    /\ UNCHANGED <<now, tz, db, nextId, filter, selectedDate, view,
                   showSettleModal, budgetDb, upserts, requests, localVars>>

\* the bottom navigation: setView(v)
setView(v) ==
    /\ view # v
    /\ view' = v
    /\ UNCHANGED <<now, tz, db, nextId, transactions, filter, selectedDate,
                   loading, showSettleModal, budgetDb, budgets, upserts, requests, localVars>>

\* saveTransaction(form), submitted from the New Entry view
saveTransaction(form, maxTx) ==
    /\ view = "add"
    /\ Len(db) < maxTx
    /\ LET body == [amount |-> form.amount, category |-> form.category,
                    date |-> form.date, type |-> form.type,
                    owner |-> form.owner, split |-> form.split,
                    from |-> Undefined, to |-> Undefined]
       IN  /\ db' = POST(db, nextId, body)
           /\ nextId' = IF SchemaValid(body) THEN nextId + 1 ELSE nextId
    /\ transactions' = GET(db')
    /\ budgets' = BudgetGET(budgetDb)
    /\ loading' = FALSE
    /\ view' = "dashboard"
    /\ UNCHANGED <<now, tz, filter, selectedDate, showSettleModal, budgetDb, upserts, requests, localVars>>

\* the Monthly Limit input of the budget planner: onChange with the text of
\* the input, which sets the limit in the page and posts it
saveBudget(cat, text) ==
    /\ view = "budgets"
    /\ budgets' = SetKey(budgets, cat, Number(text))
    /\ budgetDb' = BudgetPOST(budgetDb, [category |-> cat, amount |-> Number(text)])
    /\ UNCHANGED <<now, tz, db, nextId, transactions, filter, selectedDate, view,
                   loading, showSettleModal, upserts, requests, localVars>>

\* POST /api/transactions from any client, and the poll that shows the record
apiPOST(body, maxTx) ==
    /\ Len(db) < maxTx
    /\ db' = POST(db, nextId, body)
    /\ nextId' = IF Len(db') > Len(db) THEN nextId + 1 ELSE nextId
    /\ UNCHANGED <<now, tz, transactions, filter, selectedDate, view, loading,
                   showSettleModal, budgetDb, budgets, upserts, requests, localVars>>

\* the Settle Up button of the dashboard, shown when the amount exceeds 1
openSettle ==
    /\ view = "dashboard"
    /\ ~showSettleModal
    /\ Gt(CurFinancials.settlement.amount, OfInt(1))
    /\ showSettleModal' = TRUE
    /\ UNCHANGED <<now, tz, db, nextId, transactions, filter, selectedDate,
                   view, loading, budgetDb, budgets, upserts, requests, localVars>>

\* Cancel in the settle modal
cancelSettle ==
    /\ showSettleModal
    /\ showSettleModal' = FALSE
    /\ UNCHANGED <<now, tz, db, nextId, transactions, filter, selectedDate,
                   view, loading, budgetDb, budgets, upserts, requests, localVars>>

\* the body with the debt cut to whole units
settlementBody_WholeUnits(debt, payer, today) ==
    [amount |-> NatText(Hundredths(debt) \div 100),
     category |-> "Settlement",
     date |-> today,
     type |-> "settlement",
     from |-> payer,
     to |-> IF payer = "me" THEN "her" ELSE "me",
     owner |-> payer,
     split |-> "personal"]

\* the body executeSettlement posts
settlementBody(debt, payer, today) ==
    [amount |-> ToFixed2(debt),
     category |-> "Settlement",
     date |-> today,
     type |-> "settlement",
     from |-> payer,
     to |-> IF payer = "me" THEN "her" ELSE "me",
     owner |-> payer,
     split |-> "personal"]

\* executeSettlement for the settlement s the page shows
settle(s, maxTx) ==
    IF Le(s.amount, Zero) \/ s.whoOwes = "none"
    THEN UNCHANGED vars
    ELSE /\ Len(db) < maxTx
         /\ db' = POST(db, nextId, settlementBody(s.amount, s.whoOwes, ISODate(now, tz)))
         /\ nextId' = IF Len(db') > Len(db) THEN nextId + 1 ELSE nextId
         /\ showSettleModal' = FALSE
         /\ transactions' = GET(db')
         /\ budgets' = BudgetGET(budgetDb)
         /\ loading' = FALSE
         /\ UNCHANGED <<now, tz, filter, selectedDate, view, budgetDb, upserts, requests, localVars>>

\* executeSettlement: Confirm in the settle modal
executeSettlement(maxTx) ==
    /\ showSettleModal
    /\ settle(CurFinancials.settlement, maxTx)

\* days in one unit of navigation, for the bound on how far the page goes
UnitDays(flt) == IF flt = "weekly" THEN 7 ELSE IF flt = "monthly" THEN 31 ELSE 366

AbsInt(n) == IF n < 0 THEN -n ELSE n

\* the date navigatePeriod(direction) sets
navigated(flt, sel, direction) ==
    IF flt = "weekly" THEN setDate(sel, getDate(sel) + direction * 7)
    ELSE IF flt = "monthly" THEN setMonth(sel, getMonth(sel) + direction)
    ELSE setFullYear(sel, getFullYear(sel) + direction)

\* navigatePeriod(direction): handlePrev / handleNext of the date control
navigatePeriod(direction, maxNav) ==
    /\ view \in {"dashboard", "budgets", "analytics"}
    /\ LET newDate == navigated(filter, selectedDate, direction)
       IN  /\ AbsInt(newDate.day - now.day) <= maxNav * UnitDays(filter)
           /\ selectedDate' = newDate
    /\ UNCHANGED <<now, tz, db, nextId, transactions, filter, view, loading,
                   showSettleModal, budgetDb, budgets, upserts, requests, localVars>>

\* setFilter without the effect that resets the date
setFilter_KeepsDate(f) ==
    /\ view \in {"dashboard", "budgets", "analytics"}
    /\ f # filter
    /\ filter' = f
    /\ UNCHANGED <<now, tz, db, nextId, transactions, selectedDate, view, loading,
                   showSettleModal, budgetDb, budgets, upserts, requests, localVars>>

\* setFilter(f) from the date control, with the effect that resets the date
setFilter(f) ==
    /\ view \in {"dashboard", "budgets", "analytics"}
    /\ f # filter
    /\ filter' = f
    /\ selectedDate' = now
    /\ UNCHANGED <<now, tz, db, nextId, transactions, view, loading,
                   showSettleModal, budgetDb, budgets, upserts, requests, localVars>>

-----------------------------------------------------------------------------
(* Page: the confirmation modal *)

\* the modal closed, and the modal asking whether to delete the record id
NoConfirm == [isOpen |-> FALSE, id |-> 0]
ConfirmDelete(id) == [isOpen |-> TRUE, id |-> id]

\* deleteTx(id), from the Undo button or the bin of a record the page lists
deleteTx(id) ==
    /\ view \in {"dashboard", "analytics"}
    /\ ~confirmModal.isOpen
    /\ \E i \in 1..Len(CurFiltered) : CurFiltered[i].id = id
    /\ confirmModal' = ConfirmDelete(id)
    /\ UNCHANGED <<now, tz, db, nextId, transactions, filter, selectedDate, view,
                   loading, showSettleModal, budgetDb, budgets, upserts, requests,
                   isLoaded, storage>>

\* Cancel in the confirmation modal
cancelConfirm ==
    /\ confirmModal.isOpen
    /\ confirmModal' = [confirmModal EXCEPT !.isOpen = FALSE]
    /\ UNCHANGED <<now, tz, db, nextId, transactions, filter, selectedDate, view,
                   loading, showSettleModal, budgetDb, budgets, upserts, requests,
                   isLoaded, storage>>

\* Delete in the confirmation modal: the onConfirm of deleteTx, which closes
\* the modal, sends the DELETE and refreshes
confirmDelete ==
    /\ confirmModal.isOpen
    /\ confirmModal' = [confirmModal EXCEPT !.isOpen = FALSE]
    /\ db' = DELETE(db, confirmModal.id)
    /\ transactions' = GET(db')
    /\ budgets' = BudgetGET(budgetDb)
    /\ loading' = FALSE
    /\ UNCHANGED <<now, tz, nextId, filter, selectedDate, view, showSettleModal,
                   budgetDb, upserts, requests, isLoaded, storage>>

-----------------------------------------------------------------------------
(* The local-storage page (page.tsx) *)

\* what localStorage.getItem returns: null for a key never set, a text that
\* JSON.parse cannot read, or the text of an object, of which lacks names the
\* fields it does not have
NoItem == [item |-> "null", transactions |-> <<>>, budgets |-> <<>>, lacks |-> {}]
Garbage ==
    [item |-> "garbage", transactions |-> <<>>, budgets |-> <<>>, lacks |-> {}]

\* JSON.parse(JSON.stringify(x)) of a number: null for NaN and the infinities
JSONNumber(x) == IF IsNaN(x) \/ IsInf(x) THEN Null ELSE x

\* JSON.stringify({ transactions, budgets }) as JSON.parse reads it back
Stringified(txs, bud) ==
    [item |-> "json",
     transactions |-> txs,
     budgets |-> [i \in 1..Len(bud) |->
                      [key |-> bud[i].key, val |-> JSONNumber(bud[i].val)]],
     lacks |-> {}]

\* data.transactions || [] and data.budgets || {} of the parsed object
FieldOr(data, name, d) == IF name \in data.lacks THEN d ELSE data[name]

\* the effect that saves without the test of isLoaded
Saved_Always(loaded, txs, bud, stored) == Stringified(txs, bud)

\* the effect that saves: runs after every render in which transactions,
\* budgets or isLoaded changed, and writes when isLoaded is set
Saved(loaded, txs, bud, stored) ==
    IF loaded THEN Stringified(txs, bud) ELSE stored

\* the timer of the first effect: reads the stored data, when it is there and
\* parses, and sets isLoaded; the saving effect runs after it
localLoad ==
    /\ ~isLoaded
    /\ isLoaded' = TRUE
    /\ IF storage.item # "json"
       THEN UNCHANGED <<transactions, budgets>>
       ELSE /\ transactions' = FieldOr(storage, "transactions", <<>>)
            /\ budgets' = FieldOr(storage, "budgets", <<>>)
    /\ storage' = Saved(isLoaded', transactions', budgets', storage)
    /\ UNCHANGED <<now, tz, db, nextId, filter, selectedDate, view, loading,
                   showSettleModal, budgetDb, upserts, requests, confirmModal>>

\* the page before the timer has run: the first render and its effects
localMount ==
    /\ ~isLoaded
    /\ storage' = Saved(isLoaded, transactions, budgets, storage)
    /\ UNCHANGED <<now, tz, db, nextId, transactions, filter, selectedDate, view,
                   loading, showSettleModal, budgetDb, budgets, upserts, requests,
                   confirmModal, isLoaded>>

\* addTransaction(form) of the local-storage page; the id is Date.now()
addTransaction(form, maxTx) ==
    /\ isLoaded
    /\ view = "add"
    /\ Len(transactions) < maxTx
    /\ form.amount # <<>>
    /\ transactions' =
           <<[id |-> nextId, amount |-> form.amount, category |-> form.category,
              date |-> form.date, type |-> form.type, owner |-> form.owner,
              split |-> form.split, from |-> Undefined, to |-> Undefined]>>
             \o transactions
    /\ nextId' = nextId + 1
    /\ view' = "dashboard"
    /\ storage' = Saved(isLoaded, transactions', budgets, storage)
    /\ UNCHANGED <<now, tz, db, filter, selectedDate, loading, showSettleModal,
                   budgetDb, budgets, upserts, requests, confirmModal, isLoaded>>

\* onChange of the Monthly Limit input of the local-storage page
localSetBudget(cat, text) ==
    /\ isLoaded
    /\ view = "budgets"
    /\ budgets' = SetKey(budgets, cat, Number(text))
    /\ storage' = Saved(isLoaded, transactions, budgets', storage)
    /\ UNCHANGED <<now, tz, db, nextId, transactions, filter, selectedDate, view,
                   loading, showSettleModal, budgetDb, upserts, requests,
                   confirmModal, isLoaded>>

\* deleteTx(id) of the local-storage page: requestConfirm
localDeleteTx(id) ==
    /\ isLoaded
    /\ view \in {"dashboard", "analytics"}
    /\ ~confirmModal.isOpen
    /\ \E i \in 1..Len(CurFiltered) : CurFiltered[i].id = id
    /\ confirmModal' = ConfirmDelete(id)
    /\ UNCHANGED <<now, tz, db, nextId, transactions, filter, selectedDate, view,
                   loading, showSettleModal, budgetDb, budgets, upserts, requests,
                   isLoaded, storage>>

\* Delete in the confirmation modal of the local-storage page
localConfirmDelete ==
    /\ confirmModal.isOpen
    /\ transactions' = SelectSeq(transactions, LAMBDA t : t.id # confirmModal.id)
    /\ confirmModal' = [confirmModal EXCEPT !.isOpen = FALSE]
    /\ storage' = Saved(isLoaded, transactions', budgets, storage)
    /\ UNCHANGED <<now, tz, db, nextId, filter, selectedDate, view, loading,
                   showSettleModal, budgetDb, budgets, upserts, requests, isLoaded>>

\* the page is opened again: a new mount, with what is stored
localReload ==
    /\ isLoaded
    /\ isLoaded' = FALSE
    /\ transactions' = <<>>
    /\ budgets' = <<>>
    /\ view' = "dashboard"
    /\ filter' = "monthly"
    /\ showSettleModal' = FALSE
    /\ confirmModal' = NoConfirm
    /\ UNCHANGED <<now, tz, db, nextId, selectedDate, loading, budgetDb, upserts,
                   requests, storage>>

-----------------------------------------------------------------------------
(* Page and server: the fetches in flight *)

\* a fetch the page awaits: the two GETs of fetchData ("refresh") or a POST.
\* served says that the server has handled it, tx and bud are what the GETs
\* returned, body is what a POST carries; stale notes that a refresh issued
\* later has been applied already, a note the page itself does not keep
Request(kind, body) ==
    [kind |-> kind, served |-> FALSE, tx |-> <<>>, bud |-> <<>>, body |-> body,
     stale |-> FALSE]
NoBody == [category |-> ""]

\* the requests without the i-th
DropAt(reqs, i) == SubSeq(reqs, 1, i - 1) \o SubSeq(reqs, i + 1, Len(reqs))

\* the refreshes issued before the i-th request are older than what is shown
MarkStale(reqs, i) ==
    [j \in 1..Len(reqs) |->
         IF j < i /\ reqs[j].kind = "refresh"
         THEN [reqs[j] EXCEPT !.stale = TRUE]
         ELSE reqs[j]]

\* fetchData is called, by setInterval(fetchData, 5000) or at the end of a
\* handler: the two GETs go out
fetchDataStart(maxReq) ==
    /\ Len(requests) < maxReq
    /\ requests' = Append(requests, Request("refresh", NoBody))
    /\ UNCHANGED <<now, tz, db, nextId, transactions, filter, selectedDate, view,
                   loading, showSettleModal, budgetDb, budgets, upserts, localVars>>

\* the server answers the GETs of a fetchData
fetchDataServed ==
    \E i \in 1..Len(requests) :
        /\ requests[i].kind = "refresh"
        /\ ~requests[i].served
        /\ requests' = [requests EXCEPT ![i].served = TRUE, ![i].tx = GET(db),
                                        ![i].bud = BudgetGET(budgetDb)]
        /\ UNCHANGED <<now, tz, db, nextId, transactions, filter, selectedDate,
                       view, loading, showSettleModal, budgetDb, budgets, upserts, localVars>>

\* the awaits of a fetchData return: setTransactions, setBudgets and
\* setLoading(false)
fetchDataDone ==
    \E i \in 1..Len(requests) :
        /\ requests[i].kind = "refresh"
        /\ requests[i].served
        /\ transactions' = requests[i].tx
        /\ budgets' = requests[i].bud
        /\ loading' = FALSE
        /\ requests' = DropAt(MarkStale(requests, i), i)
        /\ UNCHANGED <<now, tz, db, nextId, filter, selectedDate, view,
                       showSettleModal, budgetDb, upserts, localVars>>

\* executeSettlement, from Confirm in the settle modal to the POST going out
executeSettlementStart(maxReq) ==
    /\ showSettleModal
    /\ Len(requests) < maxReq
    /\ LET s == CurFinancials.settlement
       IN  /\ ~(Le(s.amount, Zero) \/ s.whoOwes = "none")
           /\ requests' = Append(requests,
                  Request("settle",
                          settlementBody(s.amount, s.whoOwes, ISODate(now, tz))))
    /\ UNCHANGED <<now, tz, db, nextId, transactions, filter, selectedDate, view,
                   loading, showSettleModal, budgetDb, budgets, upserts, localVars>>

\* the server handles the POST of a settlement
executeSettlementServed(maxTx) ==
    \E i \in 1..Len(requests) :
        /\ requests[i].kind = "settle"
        /\ ~requests[i].served
        /\ Len(db) < maxTx
        /\ db' = POST(db, nextId, requests[i].body)
        /\ nextId' = IF Len(db') > Len(db) THEN nextId + 1 ELSE nextId
        /\ requests' = [requests EXCEPT ![i].served = TRUE]
        /\ UNCHANGED <<now, tz, transactions, filter, selectedDate, view, loading,
                       showSettleModal, budgetDb, budgets, upserts, localVars>>

\* the await of executeSettlement returns: setShowSettleModal(false), and
\* fetchData() is called without being awaited
executeSettlementDone ==
    \E i \in 1..Len(requests) :
        /\ requests[i].kind = "settle"
        /\ requests[i].served
        /\ showSettleModal' = FALSE
        /\ requests' = Append(DropAt(requests, i), Request("refresh", NoBody))
        /\ UNCHANGED <<now, tz, db, nextId, transactions, filter, selectedDate,
                       view, loading, budgetDb, budgets, upserts, localVars>>

\* onChange of the Monthly Limit input: setBudgets with the number typed, and
\* saveBudget up to the POST going out
saveBudgetStart(cat, text, maxReq) ==
    /\ view = "budgets"
    /\ Len(requests) < maxReq
    /\ budgets' = SetKey(budgets, cat, Number(text))
    /\ requests' = Append(requests,
           Request("budget", [category |-> cat, amount |-> Number(text)]))
    /\ UNCHANGED <<now, tz, db, nextId, transactions, filter, selectedDate, view,
                   loading, showSettleModal, budgetDb, upserts, localVars>>

\* the server handles the POST of a limit
saveBudgetServed ==
    \E i \in 1..Len(requests) :
        /\ requests[i].kind = "budget"
        /\ ~requests[i].served
        /\ budgetDb' = BudgetPOST(budgetDb, requests[i].body)
        /\ requests' = [requests EXCEPT ![i].served = TRUE]
        /\ UNCHANGED <<now, tz, db, nextId, transactions, filter, selectedDate,
                       view, loading, showSettleModal, budgets, upserts, localVars>>

\* the await of saveBudget returns
saveBudgetDone ==
    \E i \in 1..Len(requests) :
        /\ requests[i].kind = "budget"
        /\ requests[i].served
        /\ requests' = DropAt(requests, i)
        /\ UNCHANGED <<now, tz, db, nextId, transactions, filter, selectedDate,
                       view, loading, showSettleModal, budgetDb, budgets, upserts, localVars>>

-----------------------------------------------------------------------------
(* Specification of the ledger: few dates, every kind of entry *)

Date(y, m, d) == [y |-> y, m |-> m, d |-> d]
At(y, m, d, h) == [day |-> DaysFromCivil(y, m - 1, d), ms |-> h * 3600000]

InitStored(nows, tzs, stored) ==
    /\ now \in nows
    /\ tz \in tzs
    /\ db = <<>>
    /\ nextId = 1
    /\ transactions = <<>>
    /\ filter = "monthly"
    /\ selectedDate = now
    /\ view = "dashboard"
    /\ loading = TRUE
    /\ showSettleModal = FALSE
    /\ budgetDb = <<>>
    /\ budgets = <<>>
    /\ upserts = [c \in Clients |-> NoRequest]
    /\ requests = <<>>
    /\ confirmModal = NoConfirm
    /\ isLoaded = FALSE
    /\ storage \in stored

InitWith(nows, tzs) == InitStored(nows, tzs, {NoItem})

LedgerNows == {At(2024, 2, 15, 12)}
LedgerZones == {330}
LedgerViews == {"dashboard", "add"}
LedgerDates == {Date(2024, 2, 15), Date(2024, 1, 31)}
\* entries of 100 of every kind on one date, some of them on a second date,
\* and shared expenses of 50
LedgerForms ==
    [amount : {<<"1", "0", "0">>}, category : {"Groceries"},
     date : {Date(2024, 2, 15)}, type : {"expense"}, owner : Owners,
     split : SplitTypes]
    \cup
    [amount : {<<"1", "0", "0">>}, category : {"Groceries"},
     date : {Date(2024, 1, 31)}, type : {"expense"},
     owner : {"her"}, split : {"shared"}]
    \cup
    [amount : {<<"1", "0", "0">>}, category : {"Groceries"},
     date : {Date(2024, 1, 31)}, type : {"expense"},
     owner : {"me"}, split : {"personal"}]
    \cup
    [amount : {<<"1", "0", "0">>}, category : {"Income"}, date : LedgerDates,
     type : {"income"}, owner : {"me"}, split : {"personal"}]
    \cup
    [amount : {<<"1", "0", "0">>}, category : {"Income"},
     date : {Date(2024, 2, 15)}, type : {"income"},
     owner : {"her"}, split : {"shared"}]
    \cup
    [amount : {<<"5", "0">>}, category : {"Groceries"}, date : {Date(2024, 2, 15)},
     type : {"expense"}, owner : Owners, split : {"shared"}]

MaxNavLedger == 1       \* how many periods away from now the ledger navigates

Init == InitWith(LedgerNows, LedgerZones)

Next ==
    \/ fetchData
    \/ \E v \in LedgerViews : setView(v)
    \/ \E form \in LedgerForms : saveTransaction(form, MaxTx)
    \/ openSettle
    \/ cancelSettle
    \/ executeSettlement(MaxTx)
    \/ \E direction \in {-1, 1} : navigatePeriod(direction, MaxNavLedger)
    \/ \E f \in Filters : setFilter(f)

Spec == Init /\ [][Next]_vars

-----------------------------------------------------------------------------
(* Specification of the cumulative debt: shared expenses dated inside and
   outside the periods the page shows *)

CumulativeForms ==
    [amount : {<<"1", "0", "0">>}, category : {"Groceries"}, date : LedgerDates,
     type : {"expense"}, owner : Owners, split : {"shared"}]

InitCumulative == InitWith(LedgerNows, LedgerZones)

NextCumulative ==
    \/ fetchData
    \/ \E v \in LedgerViews : setView(v)
    \/ \E form \in CumulativeForms : saveTransaction(form, MaxTx)
    \/ openSettle
    \/ cancelSettle
    \/ executeSettlement(MaxTx)
    \/ \E direction \in {-1, 1} : navigatePeriod(direction, MaxNavLedger)
    \/ \E f \in Filters : setFilter(f)

SpecCumulative == InitCumulative /\ [][NextCumulative]_vars

-----------------------------------------------------------------------------
(* Specification of the budgets: limits for two categories, expenses in one
   of them and in a category without a limit *)

MaxTxBudget == 2        \* transactions the server holds at most

BudgetViews == {"add", "budgets"}
BudgetCategories == {"Groceries", "Transport"}
\* what the Monthly Limit input holds: a limit, or nothing
LimitTexts == {<<"1", "0", "0", "0">>, <<"5", "0", "0">>, <<>>}
BudgetForms ==
    [amount : {<<"1", "1", "5">>}, category : {"Groceries"}, date : LedgerDates,
     type : {"expense"}, owner : {"me"}, split : {"personal"}]
    \cup
    [amount : {<<"5", "0">>}, category : {"Groceries", "Health"},
     date : {Date(2024, 2, 15)}, type : {"expense"}, owner : {"her"},
     split : {"shared"}]

InitBudget == InitWith(LedgerNows, LedgerZones)

NextBudget ==
    \/ fetchData
    \/ \E v \in BudgetViews : setView(v)
    \/ \E form \in BudgetForms : saveTransaction(form, MaxTxBudget)
    \/ \E cat \in BudgetCategories : \E text \in LimitTexts : saveBudget(cat, text)
    \/ \E f \in Filters : setFilter(f)

SpecBudget == InitBudget /\ [][NextBudget]_vars

-----------------------------------------------------------------------------
(* Specification of the malformed records: amounts that are negative or no
   number, and settlements whose parties are not a payer and a payee *)

MaxTxMalformed == 2     \* transactions the server holds at most

\* what the amount input of the form accepts
MalformedForms ==
    [amount : {<<"1", "0", "0">>, <<"-", "5", "0">>}, category : {"Groceries"},
     date : {Date(2024, 2, 15)}, type : {"income", "expense"}, owner : {"her"},
     split : {"shared"}]
\* what the schema accepts from a client
MalformedBodies ==
    [amount : {<<"a", "b", "c">>}, category : {"Groceries"},
     date : {Date(2024, 2, 15)}, type : {"expense"}, owner : {"her"},
     split : {"shared"}, from : {Undefined}, to : {Undefined}]
    \cup
    [amount : {<<"5", "0">>}, category : {"Settlement"},
     date : {Date(2024, 2, 15)}, type : {"settlement"}, owner : {"her"},
     split : {"personal"}, from : {"me", "her"}, to : {"her"}]

InitMalformed == InitWith(LedgerNows, LedgerZones)

NextMalformed ==
    \/ fetchData
    \/ \E v \in BudgetViews : setView(v)
    \/ \E form \in MalformedForms : saveTransaction(form, MaxTxMalformed)
    \/ \E body \in MalformedBodies : apiPOST(body, MaxTxMalformed)
    \/ \E text \in LimitTexts : saveBudget("Groceries", text)

SpecMalformed == InitMalformed /\ [][NextMalformed]_vars

-----------------------------------------------------------------------------
(* Specification of the filter: one kind of entry, dated on and around the
   boundaries of the week, the month and the year of now *)

FilterNows == {At(2024, 2, 29, 10)}
FilterDates ==
    {Date(2024, 2, 25), Date(2024, 2, 26), Date(2024, 3, 3), Date(2024, 3, 4),
     Date(2024, 1, 31), Date(2024, 2, 1), Date(2024, 2, 29), Date(2024, 3, 1),
     Date(2023, 12, 31), Date(2024, 1, 1), Date(2024, 12, 31), Date(2025, 1, 1)}
FilterForms ==
    [amount : {<<"1", "0", "0">>}, category : {"Groceries"}, date : FilterDates,
     type : {"expense"}, owner : {"me"}, split : {"personal"}]

InitFilter == InitWith(FilterNows, LedgerZones)

NextFilter ==
    \/ fetchData
    \/ \E v \in LedgerViews : setView(v)
    \/ \E form \in FilterForms : saveTransaction(form, MaxTx)
    \/ \E direction \in {-1, 1} : navigatePeriod(direction, MaxNav)
    \/ \E f \in Filters : setFilter(f)

SpecFilter == InitFilter /\ [][NextFilter]_vars

-----------------------------------------------------------------------------
(* Specification of the period: many reference dates, no entries *)

MaxNavPeriod == 12      \* how many periods away from now the page navigates

PeriodNows ==
    {At(2024, 1, 31, 23), At(2024, 2, 29, 9), At(2023, 4, 30, 0),
     At(2023, 12, 31, 8), At(2025, 2, 28, 12), At(2024, 1, 1, 12),
     At(2024, 3, 29, 18)}
PeriodViews == {"dashboard", "budgets", "analytics"}

InitPeriod == InitWith(PeriodNows, LedgerZones)

NextPeriod ==
    \/ fetchData
    \/ \E v \in PeriodViews : setView(v)
    \/ \E direction \in {-1, 1} : navigatePeriod(direction, MaxNavPeriod)
    \/ \E f \in Filters : setFilter(f)

SpecPeriod == InitPeriod /\ [][NextPeriod]_vars

-----------------------------------------------------------------------------
(* Specification of the granularity: the filter takes a value outside the
   type FilterState, which nothing checks when the page runs *)

MaxNavGranularity == 2  \* periods the page moves away from the current one

Granularities == Filters \cup {"daily"}

InitGranularity == InitWith(PeriodNows, LedgerZones)

NextGranularity ==
    \/ \E v \in PeriodViews : setView(v)
    \/ \E direction \in {-1, 1} : navigatePeriod(direction, MaxNavGranularity)
    \/ \E f \in Granularities : setFilter(f)

SpecGranularity == InitGranularity /\ [][NextGranularity]_vars

-----------------------------------------------------------------------------
(* Specification of the budget upserts: both partners set limits at once *)

MaxBudgetDocs == 3      \* documents the Budget collection holds at most

UpsertBodies ==
    [category : BudgetCategories, amount : {Number(text) : text \in LimitTexts}]

InitUpsert == InitWith(LedgerNows, LedgerZones)

NextUpsert ==
    \/ fetchData
    \/ \E c \in Clients, body \in UpsertBodies : upsertFind(c, body)
    \/ \E c \in Clients : upsertInsert(c, MaxBudgetDocs)
    \/ \E c \in Clients : upsertRespond(c)

SpecUpsert == InitUpsert /\ [][NextUpsert]_vars

-----------------------------------------------------------------------------
(* Specification of the usage: records of every type in a category that has
   a limit, on a date inside and a date outside the month *)

MaxTxUsage == 3         \* transactions the server holds at most

UsageForms ==
    [amount : {<<"1", "1", "5">>}, category : {"Groceries"}, date : LedgerDates,
     type : {"expense"}, owner : {"me"}, split : {"shared"}]
    \cup
    [amount : {<<"1", "0", "0">>}, category : {"Groceries"},
     date : {Date(2024, 2, 15)}, type : {"income"}, owner : {"me"},
     split : {"personal"}]
\* a settlement a client records under the category
UsageBodies ==
    [amount : {<<"5", "0">>}, category : {"Groceries"},
     date : {Date(2024, 2, 15)}, type : {"settlement"}, owner : {"me"},
     split : {"personal"}, from : {"me"}, to : {"her"}]

InitUsage == InitWith(LedgerNows, LedgerZones)

NextUsage ==
    \/ fetchData
    \/ \E v \in BudgetViews : setView(v)
    \/ \E form \in UsageForms : saveTransaction(form, MaxTxUsage)
    \/ \E body \in UsageBodies : apiPOST(body, MaxTxUsage)
    \/ \E text \in LimitTexts : saveBudget("Groceries", text)
    \/ \E f \in Filters : setFilter(f)

SpecUsage == InitUsage /\ [][NextUsage]_vars

-----------------------------------------------------------------------------
(* Specification of the order of the budget stats: limits on three
   categories, set in any order, and expenses in two of them *)

MaxTxSort == 2          \* transactions the server holds at most

SortCategories == {"Groceries", "Transport", "Health"}
SortForms ==
    [amount : {<<"1", "1", "5">>, <<"5", "0">>}, category : {"Groceries"},
     date : {Date(2024, 2, 15)}, type : {"expense"}, owner : {"me"},
     split : {"personal"}]
    \cup
    [amount : {<<"5", "0">>}, category : {"Health"},
     date : {Date(2024, 2, 15)}, type : {"expense"}, owner : {"me"},
     split : {"personal"}]

InitSort == InitWith(LedgerNows, LedgerZones)

NextSort ==
    \/ fetchData
    \/ \E v \in BudgetViews : setView(v)
    \/ \E form \in SortForms : saveTransaction(form, MaxTxSort)
    \/ \E cat \in SortCategories : \E text \in LimitTexts : saveBudget(cat, text)

SpecSort == InitSort /\ [][NextSort]_vars

-----------------------------------------------------------------------------
(* Specification of the settlement: shared expenses whose halves have a
   third decimal, settled from the dashboard *)

MaxTxSettle == 3        \* transactions the server holds at most

SettleForms ==
    [amount : {<<"1", "0", "0", ".", "0", "1">>, <<"2", ".", "0", "3">>,
               <<"1", "0", "0">>},
     category : {"Groceries"}, date : {Date(2024, 2, 15)},
     type : {"expense"}, owner : {"her"}, split : {"shared"}]
    \cup
    [amount : {<<"5", "0">>, <<"7", ".", "0", "5">>},
     category : {"Groceries"}, date : {Date(2024, 2, 15)},
     type : {"expense"}, owner : {"me"}, split : {"shared"}]

InitSettle == InitWith(LedgerNows, LedgerZones)

NextSettle ==
    \/ fetchData
    \/ \E v \in LedgerViews : setView(v)
    \/ \E form \in SettleForms : saveTransaction(form, MaxTxSettle)
    \/ openSettle
    \/ cancelSettle
    \/ executeSettlement(MaxTxSettle)

SpecSettle == InitSettle /\ [][NextSettle]_vars

-----------------------------------------------------------------------------
(* Specification of the default date: entries and settlements dated by the
   page, early and late in the local day, east and west of Greenwich *)

MaxTxDefault == 2       \* transactions the server holds at most

DefaultNows == {At(2024, 3, 1, 2), At(2024, 2, 15, 12), At(2024, 12, 31, 22)}
DefaultZones == {330, 0, -300}
\* the form as AddTransactionView creates it, with an amount typed in
DefaultAmounts == {<<"1", "0", "0">>, <<"5", "0">>}
DefaultForm(amount) ==
    [amount |-> amount, category |-> "Food & Dining", date |-> ISODate(now, tz),
     type |-> "expense", owner |-> "me", split |-> "shared"]

InitDefault == InitWith(DefaultNows, DefaultZones)

NextDefault ==
    \/ fetchData
    \/ \E v \in LedgerViews : setView(v)
    \/ \E amount \in DefaultAmounts :
           saveTransaction(DefaultForm(amount), MaxTxDefault)
    \/ openSettle
    \/ cancelSettle
    \/ executeSettlement(MaxTxDefault)

SpecDefault == InitDefault /\ [][NextDefault]_vars

-----------------------------------------------------------------------------
(* Specification of the refreshes: polls that overlap while the partner adds
   entries *)

MaxTxRefresh == 2       \* transactions the server holds at most
MaxRequests == 3        \* fetches the page awaits at a time

RefreshBodies ==
    [amount : {<<"1", "0", "0">>, <<"5", "0">>}, category : {"Groceries"},
     date : {Date(2024, 2, 15)}, type : {"expense"}, owner : {"her"},
     split : {"shared"}, from : {Undefined}, to : {Undefined}]

InitRefresh == InitWith(LedgerNows, LedgerZones)

NextRefresh ==
    \/ fetchDataStart(MaxRequests)
    \/ fetchDataServed
    \/ fetchDataDone
    \/ \E body \in RefreshBodies : apiPOST(body, MaxTxRefresh)
    \/ \E v \in LedgerViews : setView(v)

SpecRefresh == InitRefresh /\ [][NextRefresh]_vars

-----------------------------------------------------------------------------
(* Specification of the confirmation: a debt settled from the modal while
   the POST and the refresh are under way *)

MaxTxConfirm == 3       \* transactions the server holds at most

ConfirmForms ==
    [amount : {<<"1", "0", "0">>}, category : {"Groceries"},
     date : {Date(2024, 2, 15)}, type : {"expense"}, owner : {"her"},
     split : {"shared"}]

InitConfirm == InitWith(LedgerNows, LedgerZones)

NextConfirm ==
    \/ \E v \in LedgerViews : setView(v)
    \/ \E form \in ConfirmForms : saveTransaction(form, MaxTxConfirm)
    \/ openSettle
    \/ cancelSettle
    \/ executeSettlementStart(MaxRequests)
    \/ executeSettlementServed(MaxTxConfirm)
    \/ executeSettlementDone
    \/ fetchDataServed
    \/ fetchDataDone

SpecConfirm == InitConfirm /\ [][NextConfirm]_vars

-----------------------------------------------------------------------------
(* Specification of the budget edits: a limit typed digit by digit while the
   POSTs and the polls are under way *)

\* what the Monthly Limit input holds while 50 is typed, and after
EditTexts == {<<"5">>, <<"5", "0">>}

InitEdit == InitWith(LedgerNows, LedgerZones)

NextEdit ==
    \/ \E v \in BudgetViews : setView(v)
    \/ \E text \in EditTexts : saveBudgetStart("Groceries", text, MaxRequests)
    \/ saveBudgetServed
    \/ saveBudgetDone
    \/ fetchDataStart(MaxRequests)
    \/ fetchDataServed
    \/ fetchDataDone

SpecEdit == InitEdit /\ [][NextEdit]_vars

-----------------------------------------------------------------------------
(* Specification of the local-storage page: opened with nothing stored, with
   data of an earlier visit, with data that lacks a field or does not parse *)

MaxTxLocal == 2         \* transactions the page holds at most

LocalViews == {"dashboard", "add", "budgets"}
LocalForms ==
    [amount : {<<"1", "0", "0">>}, category : {"Groceries"},
     date : {Date(2024, 2, 15)}, type : {"expense"}, owner : Owners,
     split : {"shared"}]
\* a record of an earlier visit
StoredTx ==
    [id |-> 0, amount |-> <<"5", "0">>, category |-> "Groceries",
     date |-> Date(2024, 2, 15), type |-> "expense", owner |-> "me",
     split |-> "personal", from |-> Undefined, to |-> Undefined]
StoredBefore ==
    {NoItem, Garbage, Stringified(<<>>, <<>>),
     Stringified(<<StoredTx>>, <<[key |-> "Groceries", val |-> OfInt(1000)]>>),
     [Stringified(<<StoredTx>>, <<>>) EXCEPT !.lacks = {"budgets"}]}

InitLocal == InitStored(LedgerNows, LedgerZones, StoredBefore)

NextLocal ==
    \/ localMount
    \/ localLoad
    \/ localReload
    \/ \E v \in LocalViews : setView(v)
    \/ \E form \in LocalForms : addTransaction(form, MaxTxLocal)
    \/ \E text \in LimitTexts : localSetBudget("Groceries", text)
    \/ \E id \in 0..MaxTxLocal : localDeleteTx(id)
    \/ cancelConfirm
    \/ localConfirmDelete

SpecLocal == InitLocal /\ [][NextLocal]_vars

-----------------------------------------------------------------------------
(* Specification of the deletions: records entered on the page and by the
   partner, deleted from the dashboard through the confirmation modal *)

MaxTxDelete == 3        \* transactions the server holds at most

DeleteForms ==
    [amount : {<<"1", "0", "0">>}, category : {"Groceries"},
     date : {Date(2024, 2, 15), Date(2024, 1, 31)}, type : {"expense"},
     owner : {"me"}, split : {"shared"}]
\* what the partner's page posts meanwhile
DeleteBodies ==
    [amount : {<<"5", "0">>}, category : {"Transport"},
     date : {Date(2024, 2, 15)}, type : {"expense"}, owner : {"her"},
     split : {"personal"}, from : {Undefined}, to : {Undefined}]

InitDelete == InitWith(LedgerNows, LedgerZones)

NextDelete ==
    \/ fetchData
    \/ \E v \in LedgerViews : setView(v)
    \/ \E form \in DeleteForms : saveTransaction(form, MaxTxDelete)
    \/ \E body \in DeleteBodies : apiPOST(body, MaxTxDelete)
    \/ \E id \in 1..MaxTxDelete : deleteTx(id)
    \/ cancelConfirm
    \/ confirmDelete

SpecDelete == InitDelete /\ [][NextDelete]_vars

-----------------------------------------------------------------------------
(* Specification of the sums: expenses of one date with amounts in tenths
   and hundredths, and in whole units *)

MaxTxDecimal == 3       \* transactions the server holds at most

DecimalForms ==
    [amount : {<<"0", ".", "1">>, <<"0", ".", "2">>, <<"0", ".", "3">>},
     category : {"Groceries"}, date : {Date(2024, 2, 15)},
     type : {"expense"}, owner : {"me"}, split : SplitTypes]
    \cup
    [amount : {<<"0", ".", "0", "2">>, <<"1", "0", "0">>},
     category : {"Groceries"}, date : {Date(2024, 2, 15)},
     type : {"expense"}, owner : {"her"}, split : {"shared"}]
    \cup
    {[amount |-> <<"5", "0">>, category |-> "Groceries", date |-> Date(2024, 2, 15),
      type |-> "expense", owner |-> "me", split |-> "shared"],
     [amount |-> <<"1", "0", "0">>, category |-> "Groceries", date |-> Date(2024, 2, 15),
      type |-> "expense", owner |-> "me", split |-> "personal"]}

InitDecimal == InitWith(LedgerNows, LedgerZones)

NextDecimal ==
    \/ fetchData
    \/ \E v \in LedgerViews : setView(v)
    \/ \E form \in DecimalForms : saveTransaction(form, MaxTxDecimal)
    \/ openSettle
    \/ cancelSettle
    \/ executeSettlement(MaxTxDecimal)

SpecDecimal == InitDecimal /\ [][NextDecimal]_vars

-----------------------------------------------------------------------------
(* Vocabulary of the properties *)

\* the list without its i-th element
RemoveAt(list, i) == SubSeq(list, 1, i - 1) \o SubSeq(list, i + 1, Len(list))

\* the integer 2x of a number x that is a multiple of 1/2
Halves(x) ==
    IF x = Zero THEN 0
    ELSE (IF x.neg THEN -1 ELSE 1)
           * (IF x.e >= 0 THEN 2 * LbToNat(Zeros(x.e) \o x.m)
              ELSE 2 * LbToNat(Tail(x.m)) + (2 * x.m[1]) \div Base)

\* every amount of the list is a whole number
WholeAmounts(list) ==
    \A i \in 1..Len(list) :
        LET v == Number(list[i].amount)
        IN  ~IsNaN(v) /\ (v = Zero \/ v.e >= 0)

\* twice the sum of the amounts of the elements of list whose index is in S,
\* the amounts being multiples of 1/2
RECURSIVE SumHalves(_, _)
SumHalves(list, S) ==
    IF S = {} THEN 0
    ELSE LET i == CHOOSE j \in S : TRUE
         IN  Halves(Number(list[i].amount)) + SumHalves(list, S \ {i})

Idx(list) == 1..Len(list)

\* the calendar day of a date string, and whether it lies in a period
DayOf(ds) == DaysFromCivil(ds.y, ds.m - 1, ds.d)
DayInPeriod(ds, range) ==
    range.start.day <= DayOf(ds) /\ DayOf(ds) <= range.end.day

\* the financials the page would show for a list under a filter and date
FinancialsOf(txs, flt, sel) ==
    financials(filteredTransactions(txs, dateRange(flt, sel)), txs)

-----------------------------------------------------------------------------
(* C1 *)

\* C1: a settlement dated inside the active period contributes nothing to
\* the totals: the income, expense and balance shown are those of the list
\* without it.
C1_SettlementAddsNothing ==
    \A i \in Idx(transactions) :
        (transactions[i].type = "settlement"
         /\ DayInPeriod(transactions[i].date, CurRange))
        => LET without == FinancialsOf(RemoveAt(transactions, i), filter, selectedDate)
           IN  /\ without.income = CurFinancials.income
               /\ without.expense = CurFinancials.expense
               /\ without.balance = CurFinancials.balance

C1_Witness ==
    /\ \E i \in Idx(transactions) :
           /\ transactions[i].type = "settlement"
           /\ DayInPeriod(transactions[i].date, CurRange)
           /\ Gt(Number(transactions[i].amount), Zero)
    /\ Gt(CurFinancials.expense, Zero)

-----------------------------------------------------------------------------
(* C2 *)

SharedBy(list, o) ==
    {i \in Idx(list) : list[i].type = "expense" /\ list[i].split = "shared"
                       /\ list[i].owner = o}
SettledFromTo(list, f, t) ==
    {i \in Idx(list) : list[i].type = "settlement" /\ list[i].from = f
                       /\ list[i].to = t}

\* four times the debt formula of the claim, so that the halves are whole
DebtFormula4(list) ==
    SumHalves(list, SharedBy(list, "her")) - SumHalves(list, SharedBy(list, "me"))
    - 2 * SumHalves(list, SettledFromTo(list, "me", "her"))
    + 2 * SumHalves(list, SettledFromTo(list, "her", "me"))

\* C2: raw = (her's shared expenses)/2 - (my shared expenses)/2
\*           - (settlements me -> her) + (settlements her -> me),
\* over all transactions.
C2_RawFormula ==
    2 * Halves(CurFinancials.settlement.raw) = DebtFormula4(transactions)

C2_Witness ==
    /\ SharedBy(transactions, "me") # {}
    /\ SettledFromTo(transactions, "her", "me") # {}

-----------------------------------------------------------------------------
(* C3 *)

IsSharedExpense(t, o, units) ==
    t.type = "expense" /\ t.split = "shared" /\ t.owner = o
    /\ Number(t.amount) = OfInt(units)
IsSettlementOf(t, f, to, units) ==
    t.type = "settlement" /\ t.from = f /\ t.to = to
    /\ Number(t.amount) = OfInt(units)

OnlyHerShared100 ==
    Len(transactions) = 1 /\ IsSharedExpense(transactions[1], "her", 100)

HerShared100AndSettlement(f, to) ==
    /\ Len(transactions) = 2
    /\ \E i, j \in 1..2 : /\ i # j
                          /\ IsSharedExpense(transactions[i], "her", 100)
                          /\ IsSettlementOf(transactions[j], f, to, 50)

\* C3 as stated: her shared expense of 100 gives raw = -50, whoOwes = her,
\* amount = 50, and a settlement of 50 from her to me brings it to none.
C3_AsStated ==
    /\ OnlyHerShared100 =>
           /\ CurFinancials.settlement.raw = OfInt(-50)
           /\ CurFinancials.settlement.whoOwes = "her"
           /\ CurFinancials.settlement.amount = OfInt(50)
    /\ HerShared100AndSettlement("her", "me") =>
           /\ CurFinancials.settlement.whoOwes = "none"
           /\ Halves(CurFinancials.settlement.raw) = 0

\* C3 amended: her shared expense of 100 and no settlement gives raw = +50,
\* whoOwes = me, amount = 50; with a settlement of 50 from me to her recorded
\* as well, raw = 0 and whoOwes = none.
C3_ZeroSum ==
    /\ OnlyHerShared100 =>
           /\ CurFinancials.settlement.raw = OfInt(50)
           /\ CurFinancials.settlement.whoOwes = "me"
           /\ CurFinancials.settlement.amount = OfInt(50)
    /\ HerShared100AndSettlement("me", "her") =>
           /\ CurFinancials.settlement.raw = Zero
           /\ CurFinancials.settlement.whoOwes = "none"

C3_Witness == HerShared100AndSettlement("me", "her")

-----------------------------------------------------------------------------
(* C4 *)

Hundredth == Number(<<"0", ".", "0", "1">>)

\* C4: amount = |raw|; whoOwes is me exactly when raw > 0.01, her exactly
\* when raw < -0.01, none exactly when -0.01 <= raw <= 0.01.
C4_WhoOwes ==
    LET s == CurFinancials.settlement
    IN  /\ s.amount = (IF Lt(s.raw, Zero) THEN Negate(s.raw) ELSE s.raw)
        /\ (s.whoOwes = "me") <=> Gt(s.raw, Hundredth)
        /\ (s.whoOwes = "her") <=> Lt(s.raw, Negate(Hundredth))
        /\ (s.whoOwes = "none")
               <=> (Le(Negate(Hundredth), s.raw) /\ Le(s.raw, Hundredth))

\* a debt of exactly 0.01: her shared expense of 0.02
C4_Witness ==
    /\ CurFinancials.settlement.raw = Hundredth
    /\ CurFinancials.settlement.whoOwes = "none"

-----------------------------------------------------------------------------
(* C5 *)

\* the reference dates the page can be at: now and one period either way
NearDates(flt) == {now, navigated(flt, now, -1), navigated(flt, now, 1)}

\* the record a step has added to the collection
Added == db'[Len(db')]
Adds == Len(db') = Len(db) + 1

\* C5: the settlement is that of the full list: it is the same under every
\* granularity and reference date, a step that changes only the filter or the
\* selected date leaves it unchanged, and an entry changes it by the same
\* amount whatever its date.
C5_SettlementAllTime ==
    [][ LET before == CurFinancials.settlement
            after == FinancialsOf(transactions', filter', selectedDate').settlement
        IN  /\ \A flt \in Filters : \A sel \in NearDates(flt) :
                   FinancialsOf(transactions, flt, sel).settlement = before
            /\ (transactions' = transactions) => after = before
            /\ Adds => \A ds \in LedgerDates :
                   FinancialsOf(GET(Append(db, [Added EXCEPT !.date = ds])),
                                filter, selectedDate).settlement = after
      ]_vars

\* a shared expense dated outside the active period is in the debt, seen
\* from a period the page has navigated to
C5_Witness ==
    /\ selectedDate # now
    /\ \E i \in Idx(transactions) :
           /\ i \in SharedBy(transactions, "me") \cup SharedBy(transactions, "her")
           /\ ~DayInPeriod(transactions[i].date, CurRange)
    /\ CurFiltered = <<>>
    /\ CurFinancials.settlement.whoOwes # "none"

-----------------------------------------------------------------------------
(* C6 *)

\* the expense total of a list in the period of granularity flt that holds ds
ExpenseOfPeriod(txs, flt, ds) ==
    FinancialsOf(txs, flt, DateOfFields(ds.y, ds.m, ds.d)).expense

\* C6 as stated: adding a personal expense leaves settlement.raw unchanged
\* and raises the expense total of the period that holds its date by exactly
\* its amount.
C6_AsStated ==
    [][ (Adds /\ Added.type = "expense" /\ Added.split = "personal")
        => /\ FinancialsOf(transactions', filter', selectedDate').settlement.raw
                  = CurFinancials.settlement.raw
           /\ \A flt \in Filters :
                  ExpenseOfPeriod(transactions', flt, Added.date)
                      = Plus(ExpenseOfPeriod(transactions, flt, Added.date),
                             Number(Added.amount))
      ]_vars

\* C6 amended: adding a personal expense leaves settlement.raw unchanged, and
\* when every amount is a whole number it raises the expense total of the
\* period that holds its date by exactly its amount.
C6_PersonalExpense ==
    [][ (Adds /\ Added.type = "expense" /\ Added.split = "personal")
        => /\ FinancialsOf(transactions', filter', selectedDate').settlement.raw
                  = CurFinancials.settlement.raw
           /\ WholeAmounts(transactions')
                  => \A flt \in Filters :
                         ExpenseOfPeriod(transactions', flt, Added.date)
                             = Plus(ExpenseOfPeriod(transactions, flt, Added.date),
                                    Number(Added.amount))
      ]_vars

\* a personal expense of a whole amount has been added to a shared one
C6_Witness ==
    /\ WholeAmounts(transactions)
    /\ \E i \in Idx(transactions) :
           /\ transactions[i].type = "expense"
           /\ transactions[i].split = "personal"
           /\ transactions[i].id = 2
    /\ CurFinancials.settlement.raw # Zero
    /\ Gt(CurFinancials.expense, OfInt(100))

-----------------------------------------------------------------------------
(* C7 *)

Perms(n) == {p \in [1..n -> 1..n] : \A i, j \in 1..n : p[i] = p[j] => i = j}
Permuted(list, p) == [i \in 1..Len(list) |-> list[p[i]]]

-----------------------------------------------------------------------------
(* C8 *)

OfType(list, ty) == {i \in Idx(list) : list[i].type = ty}

\* C8: income is the sum of the amounts of the income entries of the filtered
\* set, expense that of its expense entries, and balance = income - expense.
C8_Totals ==
    LET f == CurFinancials
        shown == CurFiltered
    IN  /\ Halves(f.income) = SumHalves(shown, OfType(shown, "income"))
        /\ Halves(f.expense) = SumHalves(shown, OfType(shown, "expense"))
        /\ Halves(f.balance) = Halves(f.income) - Halves(f.expense)

C8_Witness ==
    /\ OfType(CurFiltered, "income") # {}
    /\ OfType(CurFiltered, "expense") # {}
    /\ CurFinancials.balance = OfInt(50)

-----------------------------------------------------------------------------
(* C9 *)

InFiltered(t) == \E j \in Idx(CurFiltered) : CurFiltered[j].id = t.id

\* C9: a transaction is in the filtered set exactly when its calendar date d
\* satisfies start <= d <= end of the period, by date alone; the filtered set
\* holds nothing else.
C9_FilterInclusive ==
    /\ \A i \in Idx(transactions) :
           InFiltered(transactions[i])
               <=> DayInPeriod(transactions[i].date, CurRange)
    /\ \A j \in Idx(CurFiltered) :
           \E i \in Idx(transactions) : transactions[i] = CurFiltered[j]
    /\ Len(CurFiltered) <= Len(transactions)

\* an entry dated on the last day of the period is in, with one dated the day
\* after it that is out
C9_Witness ==
    \E i, j \in Idx(transactions) :
        /\ DayOf(transactions[i].date) = CurRange.end.day
        /\ InFiltered(transactions[i])
        /\ DayOf(transactions[j].date) = CurRange.end.day + 1
        /\ ~InFiltered(transactions[j])

-----------------------------------------------------------------------------
(* C10 *)

IsLeapYear(y) == (y % 4 = 0 /\ y % 100 # 0) \/ y % 400 = 0
\* m is 0-based
LastDayOfMonth(y, m) ==
    IF m = 1 THEN (IF IsLeapYear(y) THEN 29 ELSE 28)
    ELSE IF m \in {3, 5, 8, 10} THEN 30 ELSE 31

\* C10: the monthly period of a reference date D starts on day 1 of D's
\* month and ends on the last calendar day of that month.
C10_MonthlyPeriod ==
    LET r == dateRange("monthly", selectedDate)
        c == CivilFromDays(selectedDate.day)
    IN  /\ CivilFromDays(r.start.day) = [y |-> c.y, m |-> c.m, d |-> 1]
        /\ CivilFromDays(r.end.day)
               = [y |-> c.y, m |-> c.m, d |-> LastDayOfMonth(c.y, c.m)]
        /\ r.start.ms = 0
        /\ r.end.ms = MsPerDay - 1

\* the reference date is 29 February of a leap year, reached by navigation
C10_Witness ==
    /\ filter = "monthly"
    /\ selectedDate # now
    /\ CivilFromDays(selectedDate.day) = [y |-> 2024, m |-> 1, d |-> 29]
    /\ CivilFromDays(CurRange.end.day).d = 29

-----------------------------------------------------------------------------
(* C11 *)

\* the day number of the Monday on or before day number n (day 4,
\* 1970-01-05, was a Monday)
MondayOnOrBefore(n) == n - ((n + 3) % 7)

WeekOf(y, m, d) == dateRange("weekly", DateOfFields(y, m, d))
FirstWeekOf2024 ==
    [start |-> [day |-> DaysFromCivil(2024, 0, 1), ms |-> 0],
     end |-> [day |-> DaysFromCivil(2024, 0, 7), ms |-> MsPerDay - 1]]

\* C11: the weekly period of a reference date D starts on the Monday on or
\* before D, at its first millisecond, and ends on the Sunday six days later,
\* at its last; 2024-01-01 and 2024-01-07 both give 2024-01-01..2024-01-07.
C11_WeeklyPeriod ==
    LET r == dateRange("weekly", selectedDate)
    IN  /\ r.start.day = MondayOnOrBefore(selectedDate.day)
        /\ r.end.day = r.start.day + 6
        /\ r.start.ms = 0
        /\ r.end.ms = MsPerDay - 1
        /\ WeekOf(2024, 1, 1) = FirstWeekOf2024
        /\ WeekOf(2024, 1, 7) = FirstWeekOf2024

\* the page shows the week of a Sunday it has navigated to, a week that
\* began in the month before
C11_Witness ==
    /\ filter = "weekly"
    /\ selectedDate # now
    /\ selectedDate.day = CurRange.end.day
    /\ getMonth(CurRange.start) # getMonth(CurRange.end)

-----------------------------------------------------------------------------
(* C12 *)

\* the calendar month of a Date, counted in months
MonthIndex(D) == getFullYear(D) * 12 + getMonth(D)

\* C12: under the monthly filter, a navigation step moves the period to the
\* month immediately after the current one (next) or immediately before it
\* (previous): no month is skipped and the period never stays the same.
C12_AdjacentMonth ==
    [][ (filter = "monthly" /\ filter' = "monthly" /\ selectedDate' # selectedDate)
            => MonthIndex(dateRange(filter', selectedDate').start)
                   - MonthIndex(CurRange.start)
               = (IF selectedDate'.day > selectedDate.day THEN 1 ELSE -1)
      ]_vars

-----------------------------------------------------------------------------
(* C13 *)

\* C13: a step that changes the filter sets the reference date to the current
\* date, whatever the date navigated to before, so the period shown after it
\* is the period of the new filter that contains now.
C13_FilterResetsDate ==
    [][ (filter' # filter)
            => /\ selectedDate' = now'
               /\ DateLe(dateRange(filter', selectedDate').start, now')
               /\ DateLe(now', dateRange(filter', selectedDate').end)
      ]_vars

\* the filter has been switched away from the initial monthly view and the
\* page shows the year of now
C13_Witness ==
    /\ filter = "yearly"
    /\ selectedDate = now
    /\ getFullYear(CurRange.start) = getFullYear(now)

-----------------------------------------------------------------------------
(* C14 *)

\* the double nearest to 23/100
Scale23 == Quotient(23, 100)

\* C14: every budget stat has effectiveLimit = monthlyLimit * scale, the
\* scale being 0.23 under the weekly filter, 1 under the monthly and 12 under
\* the yearly one, and, for a limit above 0, pct = spent / effectiveLimit *
\* 100; a monthly limit of 1000 is 230 for a week, of which 115 spent are 50
\* per cent.
C14_BudgetScaling ==
    LET stats == CurBudgetStats IN
    \A i \in Idx(stats) :
        LET st == stats[i]
        IN  /\ filter = "weekly"
                   => st.effectiveLimit = Times(st.monthlyLimit, Scale23)
            /\ filter = "monthly" => st.effectiveLimit = st.monthlyLimit
            /\ filter = "yearly"
                   => Halves(st.effectiveLimit) = 12 * Halves(st.monthlyLimit)
            /\ Gt(st.effectiveLimit, Zero)
                   => st.pct = Times(Divide(st.spent, st.effectiveLimit),
                                     OfInt(100))
            /\ (filter = "weekly" /\ st.monthlyLimit = OfInt(1000))
                   => /\ st.effectiveLimit = OfInt(230)
                      /\ st.spent = OfInt(115) => st.pct = OfInt(50)

\* the example: under the weekly filter, a limit of 1000 with 115 spent
C14_Witness ==
    /\ filter = "weekly"
    /\ \E i \in Idx(CurBudgetStats) :
           /\ CurBudgetStats[i].monthlyLimit = OfInt(1000)
           /\ CurBudgetStats[i].effectiveLimit = OfInt(230)
           /\ CurBudgetStats[i].spent = OfInt(115)
           /\ CurBudgetStats[i].pct = OfInt(50)

-----------------------------------------------------------------------------
(* C15 *)

IsFiniteNonNegative(x) == ~IsNaN(x) /\ ~IsInf(x) /\ ~x.neg

\* C15: a budget stat whose effectiveLimit is 0 has pct = 0 whatever was
\* spent in its category, and the pct of every stat is a finite number that
\* is not negative (nothing is divided by zero).
C15_ZeroLimit ==
    LET stats == CurBudgetStats
    IN  \A i \in Idx(stats) :
            /\ stats[i].effectiveLimit = Zero => stats[i].pct = Zero
            /\ IsFiniteNonNegative(stats[i].pct)

\* a category with its limit cleared and expenses in the period
C15_Witness ==
    \E i \in Idx(CurBudgetStats) :
        /\ CurBudgetStats[i].effectiveLimit = Zero
        /\ Gt(CurBudgetStats[i].spent, Zero)
        /\ CurBudgetStats[i].pct = Zero

-----------------------------------------------------------------------------
(* C16 *)

BudgetedCategories == {budgets[i].key : i \in Idx(budgets)}
SpentCategories ==
    {CurFiltered[i].category : i \in OfType(CurFiltered, "expense")}

\* C16: the budget stats hold one entry for each category of the budgets map
\* and no other entry: none for a category with expenses and no limit, and one
\* with spent = 0 for a category with a limit and no expenses in the period.
C16_OnePerBudget ==
    LET stats == CurBudgetStats
    IN  /\ Len(stats) = Cardinality(BudgetedCategories)
        /\ {stats[i].category : i \in Idx(stats)} = BudgetedCategories
        /\ \A i \in Idx(stats) :
               stats[i].category \notin SpentCategories => stats[i].spent = Zero

\* expenses in a category without a limit, and a limit on a category without
\* expenses
C16_Witness ==
    /\ "Health" \in SpentCategories \ BudgetedCategories
    /\ "Transport" \in BudgetedCategories \ SpentCategories
    /\ "Groceries" \in BudgetedCategories \cap SpentCategories

-----------------------------------------------------------------------------
(* C17 *)

\* the amount of t does not parse to a finite number that is not negative
Malformed(t) == IsNaN(Number(t.amount)) \/ Number(t.amount).neg

BudgetStatsOf(txs) ==
    budgetStats(filteredTransactions(txs, CurRange), budgets, filter)

\* C17: a record with a malformed amount enters no sum: with one such record
\* in the list, the totals, the settlement and the budget stats are those of
\* the list without it.
C17_MalformedSkipped ==
    \A i \in Idx(transactions) :
        (/\ Malformed(transactions[i])
         /\ \A j \in Idx(transactions) \ {i} : ~Malformed(transactions[j]))
            => /\ CurFinancials
                      = FinancialsOf(RemoveAt(transactions, i), filter, selectedDate)
               /\ CurBudgetStats = BudgetStatsOf(RemoveAt(transactions, i))

-----------------------------------------------------------------------------
(* C18 *)

\* a settlement whose payer is its payee, or whose owner is not its payer
Degenerate(t) ==
    /\ t.type = "settlement"
    /\ t.from = t.to \/ t.owner # t.from

\* C18: a degenerate settlement record is not folded into the debt: the raw
\* net debt is the one of the list without that record.
C18_DegenerateNotFolded ==
    \A i \in Idx(transactions) :
        Degenerate(transactions[i])
            => CurFinancials.settlement.raw
                   = FinancialsOf(RemoveAt(transactions, i), filter,
                                  selectedDate).settlement.raw

-----------------------------------------------------------------------------
(* C19 *)

-----------------------------------------------------------------------------
(* C20 *)

\* no two documents of the collection have the same category and owner
OneLimitPerPair ==
    \A i, j \in 1..Len(budgetDb) :
        (/\ budgetDb[i].category = budgetDb[j].category
         /\ budgetDb[i].owner = budgetDb[j].owner) => i = j

\* a step keeps every document, and changes at most the amount of the one
\* document whose category and owner are those of the request it serves
OnlyAddressedChanges ==
    /\ Len(budgetDb') >= Len(budgetDb)
    /\ \A i \in 1..Len(budgetDb) :
           budgetDb'[i] # budgetDb[i]
               => /\ \E c \in Clients :
                         /\ upserts[c].pc # "respond"
                         /\ upserts'[c].pc = "respond"
                         /\ budgetDb[i].category = upserts'[c].category
                         /\ budgetDb[i].owner = "joint"
                         /\ budgetDb'[i]
                                = [budgetDb[i] EXCEPT !.amount = upserts'[c].amount]
                  /\ \A j \in 1..Len(budgetDb) \ {i} : budgetDb'[j] = budgetDb[j]
                  /\ Len(budgetDb') = Len(budgetDb)

\* C20: whatever upserts are made, also ones that overlap, the collection
\* holds at most one limit per category and owner, and a step of an upsert
\* changes only the document of the category and owner it addresses.
C20_OneLimitPerPair == []OneLimitPerPair /\ [][OnlyAddressedChanges]_vars

\* two upserts of one category overlapped: the collection holds its limit and
\* the later insert met the duplicate key
C20_Witness ==
    /\ \E c \in Clients : upserts[c].status = 400
    /\ \E c \in Clients : upserts[c].status = 200
    /\ budgetDb # <<>>

-----------------------------------------------------------------------------
(* C22 *)

\* the records of the type and the category in the list
OfTypeIn(list, ty, cat) == {i \in OfType(list, ty) : list[i].category = cat}

\* C22: the spent of a budget stat is the sum of the amounts of the expenses
\* of its category in the filtered list; the incomes and the settlements of
\* the category add nothing to it.
C22_ExpensesOnly ==
    LET stats == CurBudgetStats
        filtered == CurFiltered
    IN  \A i \in Idx(stats) :
            Halves(stats[i].spent)
                = SumHalves(filtered, OfTypeIn(filtered, "expense", stats[i].category))

\* a limit on a category with an expense, an income and a settlement in the
\* period
C22_Witness ==
    /\ \E i \in Idx(CurBudgetStats) :
           /\ CurBudgetStats[i].category = "Groceries"
           /\ CurBudgetStats[i].spent = OfInt(115)
    /\ OfTypeIn(CurFiltered, "income", "Groceries") # {}
    /\ OfTypeIn(CurFiltered, "settlement", "Groceries") # {}

-----------------------------------------------------------------------------
(* C23 *)

\* the place of the category among the keys of the budgets map
KeyPos(cat) == CHOOSE i \in Idx(budgets) : budgets[i].key = cat

\* C23: the budget stats are in descending order of pct, and stats of equal
\* pct are in the order of their categories in the budgets map.
C23_SortedByPct ==
    LET stats == CurBudgetStats
    IN  \A i, j \in Idx(stats) :
            i < j => /\ ~Gt(stats[j].pct, stats[i].pct)
                     /\ stats[i].pct = stats[j].pct
                            => KeyPos(stats[i].category) < KeyPos(stats[j].category)

\* the sort moved the last category of the map to the front, and the two
\* stats behind it have the same pct
C23_Witness ==
    /\ Len(CurBudgetStats) = 3
    /\ CurBudgetStats[1].category = budgets[3].key
    /\ Gt(CurBudgetStats[1].pct, CurBudgetStats[2].pct)
    /\ CurBudgetStats[2].pct = CurBudgetStats[3].pct

-----------------------------------------------------------------------------
(* C24 *)

\* the record the server stores in this step
Recorded == db'[CHOOSE i \in Idx(db') : db'[i].id = nextId]

\* C24: the settlement executeSettlement records for a debt goes from the one
\* who owes to the other, is owned by the payer and carries the debt with two
\* decimals, and with it in the list nobody owes anything.
C24_SettleClears ==
    [][(showSettleModal /\ ~showSettleModal' /\ nextId' = nextId + 1)
          => LET s == CurFinancials.settlement
             IN  /\ s.whoOwes # "none"
                 /\ Recorded.type = "settlement"
                 /\ Recorded.from = s.whoOwes
                 /\ Recorded.to = (IF s.whoOwes = "me" THEN "her" ELSE "me")
                 /\ Recorded.owner = Recorded.from
                 /\ Recorded.amount = ToFixed2(s.amount)
                 /\ Recorded \in {transactions'[i] : i \in Idx(transactions')}
                 /\ FinancialsOf(transactions', filter', selectedDate')
                        .settlement.whoOwes = "none"]_vars

\* a settled debt of which the rounding left a rest below the threshold
C24_Witness ==
    /\ \E i \in Idx(transactions) : transactions[i].type = "settlement"
    /\ CurFinancials.settlement.whoOwes = "none"
    /\ CurFinancials.settlement.raw # Zero

-----------------------------------------------------------------------------
(* C26 *)

\* the period after navigatePeriod(first) and then navigatePeriod(second)
PeriodAfter(first, second) ==
    dateRange(filter, navigated(filter, navigated(filter, selectedDate, first),
                                second))

\* C26: one period forward and one back, or one back and one forward, lead to
\* the period the page started from, under each filter and from every
\* reference date.
C26_ThereAndBack ==
    /\ PeriodAfter(1, -1) = CurRange
    /\ PeriodAfter(-1, 1) = CurRange

-----------------------------------------------------------------------------
(* C27 *)

\* the calendar date of D in local time
LocalDate(D) ==
    [y |-> CivilFromDays(D.day).y, m |-> CivilFromDays(D.day).m + 1,
     d |-> CivilFromDays(D.day).d]

\* C27: an entry made with the date the page proposes, and a settlement the
\* page records, carry the local calendar date of the moment, and are inside
\* the period of now under each filter.
C27_DefaultDateLocal ==
    \A i \in Idx(transactions) :
        /\ transactions[i].date = LocalDate(now)
        /\ \A f \in Filters : InRange(transactions[i], dateRange(f, now))

-----------------------------------------------------------------------------
(* C21 *)

\* the answer of a refresh arrives after a refresh issued later was applied
StaleArrives ==
    \E i \in Idx(requests) :
        /\ requests[i].kind = "refresh"
        /\ requests[i].served
        /\ requests[i].stale
        /\ requests' = DropAt(requests, i)

\* C21: the answer of a refresh that arrives after the answer of a refresh
\* issued later is discarded: it changes neither the transactions nor the
\* budgets the page shows.
C21_LastSnapshotWins ==
    [][StaleArrives => transactions' = transactions /\ budgets' = budgets]_vars

-----------------------------------------------------------------------------
(* C25 *)

\* who owes whom according to the records the server holds
OwesOf(coll) == FinancialsOf(GET(coll), filter, selectedDate).settlement.whoOwes

\* C25: a settlement is recorded only for a debt that is outstanding, and
\* never makes the other owner the debtor: the server gets no second
\* settlement for a debt that a first one has cleared.
C25_SettlesOnce ==
    [][(nextId' = nextId + 1 /\ Recorded.type = "settlement")
          => OwesOf(db) # "none" /\ OwesOf(db') \in {"none", OwesOf(db)}]_vars

-----------------------------------------------------------------------------
(* C28 *)

\* C28: once every POST of a limit and every refresh has returned, the limit
\* the page shows for a category is the limit the server stores for it, both
\* being the last value entered.
C28_EditsConverge ==
    requests = <<>>
        => \A cat \in BudgetCategories :
               OrZero(budgets, cat) = OrZero(BudgetGET(budgetDb), cat)

-----------------------------------------------------------------------------
(* C29 *)

\* C29: nothing is written to localStorage while isLoaded is not set, and the
\* write of the load step holds the transactions and the budgets that were
\* stored, when the stored data parses.
C29_StoredDataKept ==
    [][/\ ~isLoaded' => storage' = storage
       /\ (~isLoaded /\ isLoaded' /\ storage.item = "json")
              => /\ storage'.item = "json"
                 /\ storage'.transactions = storage.transactions
                 /\ storage'.budgets = storage.budgets]_vars

\* the page has loaded the record of an earlier visit and written it back
C29_Witness ==
    /\ isLoaded
    /\ storage.item = "json"
    /\ storage.transactions = <<StoredTx>>
    /\ transactions = <<StoredTx>>


-----------------------------------------------------------------------------
(* C30 *)

\* the records of a list, and those of them that do not have the id
Records(list) == {list[i] : i \in Idx(list)}
Others(list, id) == {t \in Records(list) : t.id # id}

\* C30: a request to delete opens the confirmation modal and changes neither
\* the list of the page nor the collection; the modal closes either with both
\* unchanged (Cancel) or with the record of the requested id, and no other
\* record, gone from the list and from the collection that holds it
\* (Delete); and no record leaves the collection in any other step.
C30_DeleteOnConfirm ==
    [][/\ (~confirmModal.isOpen /\ confirmModal'.isOpen)
              => transactions' = transactions /\ db' = db
       /\ (confirmModal.isOpen /\ ~confirmModal'.isOpen)
              => \/ transactions' = transactions /\ db' = db
                 \/ /\ Others(transactions, confirmModal.id)
                           \subseteq Records(transactions')
                    /\ Others(transactions', confirmModal.id)
                           = Records(transactions')
                    /\ Records(transactions') # Records(transactions)
                    /\ \/ db' = db
                       \/ /\ Records(db') = Others(db, confirmModal.id)
                          /\ Records(transactions') = Records(db')
       /\ Records(db) \subseteq Records(db')
              \/ (confirmModal.isOpen /\ ~confirmModal'.isOpen)]_vars

\* a record has been deleted from the dashboard, an older and a newer one
\* are still there
C30_Witness ==
    /\ ~confirmModal.isOpen
    /\ confirmModal.id = 2
    /\ nextId = 4
    /\ Len(db) = 2
    /\ Len(transactions) = 2
    /\ \A i \in Idx(db) : db[i].id # 2

====
